---------------------------- MODULE Spec2Model ----------------------------
(***************************************************************************)
(* Workout tracker: the browser clients (local-only script.js, the         *)
(* localStorage+push client of part_003, the server-backed client of       *)
(* frontend/config.js) and the Express servers (part_000, part_001) over   *)
(* the hosted workouts table.                                              *)
(***************************************************************************)
EXTENDS Integers, Sequences, FiniteSets, TLC

(***************************************************************************)
(* Bounds of the model.                                                    *)
(***************************************************************************)
MaxWorkouts == 2   \* records a client collection may hold
MaxClock == 2      \* distinct values 1..MaxClock a clock returns
MaxReqs == 2       \* HTTP requests a run may send
MaxCalls == 3      \* API calls a run of the bare API may make
MaxGateCalls == 2  \* requests a run of the API under any caller may make
MaxClicks == 2     \* clicks on 'Add Workout' after a page load

(***************************************************************************)
(* JavaScript values.  A string is a sequence of one-character strings.    *)
(* A scalar of a form field or of a JSON body is tagged: "str" (s), "num"  *)
(* (m, in thousandths), "null" (null or absent).                           *)
(***************************************************************************)
Digits == {"0", "1", "2", "3", "4", "5", "6", "7", "8", "9"}

DigitVal(c) ==
    CASE c = "0" -> 0 [] c = "1" -> 1 [] c = "2" -> 2 [] c = "3" -> 3
      [] c = "4" -> 4 [] c = "5" -> 5 [] c = "6" -> 6 [] c = "7" -> 7
      [] c = "8" -> 8 [] c = "9" -> 9

Str(s) == [t |-> "str", s |-> s, m |-> 0]
NumV(m) == [t |-> "num", s |-> <<>>, m |-> m]
NullV == [t |-> "null", s |-> <<>>, m |-> 0]

\* Results of parseInt: an integer or NaN.  JSON.stringify turns NaN into null.
IntV(v) == [k |-> "int", v |-> v]
NaN == [k |-> "nan", v |-> 0]
NullN == [k |-> "null", v |-> 0]
Undef == [k |-> "undef", v |-> 0]

\* Results of ToNumber: thousandths, or NaN.
Milli(m) == [nan |-> FALSE, m |-> m]
NaNm == [nan |-> TRUE, m |-> 0]

RECURSIVE TrimLeft(_)
TrimLeft(s) == IF s # <<>> /\ Head(s) = " " THEN TrimLeft(Tail(s)) ELSE s

RECURSIVE TrimRight(_)
TrimRight(s) ==
    IF s # <<>> /\ s[Len(s)] = " " THEN TrimRight(SubSeq(s, 1, Len(s) - 1)) ELSE s

\* String.prototype.trim
Trim(s) == TrimRight(TrimLeft(s))

RECURSIVE DigitPrefixLen(_)
DigitPrefixLen(s) ==
    IF s # <<>> /\ Head(s) \in Digits THEN 1 + DigitPrefixLen(Tail(s)) ELSE 0

RECURSIVE DigitsValue(_)
DigitsValue(s) ==
    IF s = <<>> THEN 0
    ELSE 10 * DigitsValue(SubSeq(s, 1, Len(s) - 1)) + DigitVal(s[Len(s)])

StripSign(s) == IF s # <<>> /\ Head(s) \in {"-", "+"} THEN Tail(s) ELSE s
SignOf(s) == IF s # <<>> /\ Head(s) = "-" THEN -1 ELSE 1

\* parseInt(string): leading white space, a sign, the longest digit prefix.
ParseIntStr(s) ==
    LET t == TrimLeft(s)
        u == StripSign(t)
        n == DigitPrefixLen(u)
    IN  IF n = 0 THEN NaN ELSE IntV(SignOf(t) * DigitsValue(SubSeq(u, 1, n)))

\* The fraction digits of a decimal literal, as thousandths.
FracMilli(f) ==
    LET d(i) == IF i <= Len(f) THEN DigitVal(f[i]) ELSE 0
    IN  100 * d(1) + 10 * d(2) + d(3)

\* ToNumber(string): trimmed; empty is 0; [sign] digits [. digits] or [sign] . digits.
ToNumberStr(s) ==
    LET t == Trim(s)
        u == StripSign(t)
        n == DigitPrefixLen(u)
        rest == SubSeq(u, n + 1, Len(u))
        frac == IF rest # <<>> /\ Head(rest) = "." THEN Tail(rest) ELSE <<>>
        wellFormed ==
            /\ u # <<>>
            /\ \/ rest = <<>>
               \/ /\ Head(rest) = "."
                  /\ DigitPrefixLen(frac) = Len(frac)
                  /\ n + Len(frac) > 0
    IN  IF t = <<>> THEN Milli(0)
        ELSE IF ~wellFormed THEN NaNm
        ELSE Milli(SignOf(t) * (1000 * DigitsValue(SubSeq(u, 1, n)) + FracMilli(frac)))

\* Truncation toward zero of thousandths: parseInt(ToString(number)).
TruncMilli(m) == IF m >= 0 THEN m \div 1000 ELSE -((-m) \div 1000)

\* parseInt(value)
JsParseInt(x) ==
    CASE x.t = "str" -> ParseIntStr(x.s)
      [] x.t = "num" -> IntV(TruncMilli(x.m))
      [] OTHER -> NaN

\* ToNumber(value): null is 0.
JsToNumber(x) ==
    CASE x.t = "str" -> ToNumberStr(x.s)
      [] x.t = "num" -> Milli(x.m)
      [] OTHER -> Milli(0)

\* !value
Falsy(x) ==
    CASE x.t = "str" -> x.s = <<>>
      [] x.t = "num" -> x.m = 0
      [] OTHER -> TRUE

\* value <= 0 (false when ToNumber(value) is NaN)
LeZero(x) == LET n == JsToNumber(x) IN ~n.nan /\ n.m <= 0

\* number <= 0 for a parseInt result
IntLeZero(n) == n.k = "int" /\ n.v <= 0

\* JSON.parse(JSON.stringify(number)): NaN becomes null.
JsonNum(n) == IF n.k = "nan" THEN NullN ELSE n

\* A stored field is a positive integer.
PosInt(n) == n.k = "int" /\ n.v > 0

(***************************************************************************)
(* Form inputs.                                                            *)
(***************************************************************************)
RawInputs ==
    { <<>>, <<"3">>, <<"0">>, <<"-", "5">>, <<"0", ".", "5">>, <<"a", "b", "c">> }

RawExercises == { <<>>, <<" ">>, <<" ", "S", " ">> }

\* The value of the date input: empty, unparseable, or a calendar day.
EmptyDate == [k |-> "empty", d |-> 0]
BadDate == [k |-> "invalid", d |-> 0]
Day(d) == [k |-> "day", d |-> d]
RawDates == { EmptyDate, BadDate, Day(1) }

GoodForm ==
    [exercise |-> <<" ", "S", " ">>, sets |-> <<"3">>, reps |-> <<"3">>,
     weight |-> <<"3">>, workoutDate |-> Day(1)]

\* Submissions: the good form with one field replaced by any raw value.
Forms ==
    {[GoodForm EXCEPT !.exercise = e] : e \in RawExercises}
    \cup {[GoodForm EXCEPT !.sets = r] : r \in RawInputs}
    \cup {[GoodForm EXCEPT !.reps = r] : r \in RawInputs}
    \cup {[GoodForm EXCEPT !.weight = r] : r \in RawInputs}
    \cup {[GoodForm EXCEPT !.workoutDate = d] : d \in RawDates}

\* A submission dated one day later than the others.
LaterForm == [GoodForm EXCEPT !.workoutDate = Day(2)]

(***************************************************************************)
(* Backup files chosen for import (script.js reads a bare array).          *)
(***************************************************************************)
GoodEntry ==
    [id |-> 1, exercise |-> <<"S">>, sets |-> IntV(3), reps |-> IntV(3),
     weight |-> IntV(3), rawDate |-> 1]

\* An entry whose `sets` is missing.
MalformedEntry == [GoodEntry EXCEPT !.id = 2, !.sets = Undef]

ImportEntries == {GoodEntry, MalformedEntry}

SeqsUpTo(S, n) == UNION {[1..k -> S] : k \in 0..n}

NoFile == [k |-> "none", items |-> <<>>]
ImportFiles ==
    {[k |-> "notjson", items |-> <<>>], [k |-> "object", items |-> <<>>]}
    \cup {[k |-> "array", items |-> q] : q \in SeqsUpTo(ImportEntries, MaxWorkouts)}

Malformed(file) ==
    file.k = "array" /\ \E i \in 1..Len(file.items) : file.items[i].sets.k = "undef"

(***************************************************************************)
(* State.                                                                  *)
(***************************************************************************)
VARIABLES
    now,          \* the browser's clock: the last Date.now() read, 0 before the first
    srvNow,       \* the server's clock: the last new Date() read, 0 before the first
    lWorkouts,    \* script.js: this.workouts
    lStorage,     \* script.js: localStorage['workoutTracker']
    lMsg,         \* script.js: the message shown last
    lReading,     \* script.js: the file a FileReader is reading, or NoFile
    db,           \* the workouts table, in insertion order
    nextId,       \* the next gen_random_uuid()
    net,          \* HTTP requests in flight, each with its stage
    nextReq,      \* the serial of the next request
    sUser,        \* frontend/config.js: this.currentUser, or NoUser
    sWorkouts,    \* frontend/config.js: this.workouts
    sMsg,         \* frontend/config.js: the message shown last
    hUser,        \* part_003: this.currentUser, or NoUser
    hWorkouts,    \* part_003: this.workouts
    hStorage,     \* part_003: localStorage['workoutTracker_workouts']
    hMsg,         \* part_003: the message shown last
    origin,       \* history: <<row id, serial of the push request that created it>>
    hDelPending,  \* history: serials of the pushes whose record was deleted in flight
    resp,         \* the response to the API request handled last, and what it touched
    call,         \* a computation on its own: the function and its arguments
    ret,          \* [k |-> "done", v |-> its result], NoRet before it ran
    hStats,       \* part_003: the statistics on the page (updateStats ran last)
    hChart,       \* part_003: the series of the chart on the page
    sStats,       \* frontend/config.js: the statistics on the page
    sChart,       \* frontend/config.js: the series of the chart on the page
    boot,         \* the page load: the document, the scripts run, the trackers built
    authUser,     \* auth.js: SimpleAuth.currentUser, or NoUser
    sClear,       \* frontend/config.js: clearAllWorkouts in progress, and its outcome
    lTimer,       \* script.js: the rest timer (timeLeft, timerInterval, live intervals)
    sTimer        \* frontend/config.js: the rest timer, with its isRunning flag

lVars == <<lWorkouts, lStorage, lMsg, lReading>>
dbVars == <<db, nextId>>
sVars == <<sUser, sWorkouts, sMsg>>
hVars == <<hUser, hWorkouts, hStorage, hMsg>>
history == <<origin, hDelPending>>
probe == <<resp, call, ret>>
screen == <<hStats, hChart, sStats, sChart>>
page == <<boot, authUser, sClear, lTimer, sTimer>>

\* Before any request was handled, before any computation ran.
NoResp == [kind |-> "none"]
NoCall == [fn |-> "none"]
NoRet == [k |-> "none"]
vars == <<now, srvNow, lVars, dbVars, net, nextReq, sVars, hVars, history, probe, screen, page>>

\* A clock read returns the value read last or a later one.  Only the order of
\* the values matters, so the later one is the next integer.
ClockReads(last) == {t \in {last, last + 1} : 1 <= t /\ t <= MaxClock}

(***************************************************************************)
(* The workouts table (part_000, setup SQL) and the servers' handlers.     *)
(***************************************************************************)
NoUser == "none"
Users == {"A", "B"}

Uuid(n) == <<"uuid", n>>
NoId == <<"none", 0>>

\* A column of type INTEGER takes an integer or a string of digits.
DbInteger(x) ==
    CASE x.t = "num" -> IF x.m % 1000 = 0 THEN IntV(x.m \div 1000) ELSE NaN
      [] x.t = "str" ->
            IF x.s # <<>> /\ DigitPrefixLen(StripSign(x.s)) = Len(StripSign(x.s))
               /\ StripSign(x.s) # <<>>
            THEN ParseIntStr(x.s) ELSE NaN
      [] OTHER -> NullN

\* NOT NULL and CHECK (sets > 0), (reps > 0), (weight > 0); id is the primary key.
DbRowOk(table, r) ==
    /\ r.exercise.t = "str"
    /\ PosInt(DbInteger(r.sets)) /\ PosInt(DbInteger(r.reps)) /\ PosInt(DbInteger(r.weight))
    /\ r.workout_date.k # "invalid"
    /\ r.user_id \in Users
    /\ \A i \in 1..Len(table) : table[i].id # r.id

\* The row as stored and as returned by select().  workout_date defaults to
\* CURRENT_DATE, the day of the run (day 1).
DbRow(r) ==
    [id |-> r.id, user_id |-> r.user_id, exercise |-> r.exercise.s,
     sets |-> DbInteger(r.sets), reps |-> DbInteger(r.reps),
     weight |-> DbInteger(r.weight),
     workout_date |-> IF r.workout_date.k = "day" THEN r.workout_date.d ELSE 1,
     created_at |-> r.created_at]

\* insert(rows): one statement, all rows or none.
RECURSIVE DbInsert(_, _)
DbInsert(table, rows) ==
    IF rows = <<>> THEN [ok |-> TRUE, table |-> table]
    ELSE IF ~DbRowOk(table, Head(rows)) THEN [ok |-> FALSE, table |-> table]
    ELSE DbInsert(Append(table, DbRow(Head(rows))), Tail(rows))

\* order('workout_date', desc).order('created_at', desc): a stable insertion sort.
NewerFirst(a, b) ==
    \/ a.workout_date > b.workout_date
    \/ a.workout_date = b.workout_date /\ a.created_at >= b.created_at

RECURSIVE InsertSorted(_, _)
InsertSorted(q, r) ==
    IF q = <<>> THEN <<r>>
    ELSE IF NewerFirst(Head(q), r) THEN <<Head(q)>> \o InsertSorted(Tail(q), r)
    ELSE <<r>> \o q

RECURSIVE SortRows(_)
SortRows(q) == IF q = <<>> THEN <<>> ELSE InsertSorted(SortRows(Tail(q)), Head(q))

\* A request body's fields; absent fields are NullV, NoId, NoUser.
NoBody ==
    [id |-> NoId, user_id |-> NoUser, exercise |-> NullV, sets |-> NullV,
     reps |-> NullV, weight |-> NullV, workout_date |-> EmptyDate]

\* A handler's outcome: the table, the status, the rows of the response.
Reply(table, status, rows) == [table |-> table, status |-> status, rows |-> rows]

\* part_000 GET /api/workouts: the caller's rows, newest first, `limit` at most.
DefaultLimit == 50

Srv0Get(table, user) ==
    LET rows == SortRows(SelectSeq(table, LAMBDA r : r.user_id = user))
    IN  Reply(table, 200, SubSeq(rows, 1, IF Len(rows) < DefaultLimit THEN Len(rows)
                                          ELSE DefaultLimit))

\* part_000 POST /api/workouts: the two validations, parseInt, insert.
Srv0Validate(b) ==
    IF \/ Falsy(b.exercise) \/ Falsy(b.sets) \/ Falsy(b.reps) \/ Falsy(b.weight)
       \/ b.workout_date.k = "empty"
    THEN "MISSING_FIELDS"
    ELSE IF LeZero(b.sets) \/ LeZero(b.reps) \/ LeZero(b.weight)
    THEN "INVALID_VALUES"
    ELSE "ok"

\* parseInt's result as the JSON value handed to the table.
IntJson(n) == IF n.k = "int" THEN NumV(1000 * n.v) ELSE NullV

Srv0Post(table, user, b, id, t) ==
    IF Srv0Validate(b) # "ok" THEN Reply(table, 400, <<>>)
    ELSE IF b.exercise.t # "str" THEN Reply(table, 500, <<>>)
    ELSE
      LET workout ==
            [id |-> Uuid(id), user_id |-> user, exercise |-> Str(Trim(b.exercise.s)),
             sets |-> IntJson(JsParseInt(b.sets)), reps |-> IntJson(JsParseInt(b.reps)),
             weight |-> IntJson(JsParseInt(b.weight)),
             workout_date |-> b.workout_date, created_at |-> t]
          ins == DbInsert(table, <<workout>>)
      IN  IF ins.ok THEN Reply(ins.table, 201, <<ins.table[Len(ins.table)]>>)
          ELSE Reply(table, 500, <<>>)

\* A variant that deletes by id alone.
Srv0DeleteAnyOwner(table, user, id) ==
    Reply(SelectSeq(table, LAMBDA r : r.id # id), 200, <<>>)

\* part_000 DELETE /api/workouts/:id
Srv0Delete(table, user, id) ==
    Reply(SelectSeq(table, LAMBDA r : ~(r.id = id /\ r.user_id = user)), 200, <<>>)

\* part_000 POST /api/workouts/batch: the entries as sent, owned by the caller.
Srv0Batch(table, user, items, id, t) ==
    IF items = <<>> THEN Reply(table, 400, <<>>)
    ELSE
      LET rows == [i \in 1..Len(items) |->
                    [id |-> IF items[i].id = NoId THEN Uuid(id + i - 1) ELSE items[i].id,
                     user_id |-> user, exercise |-> items[i].exercise,
                     sets |-> items[i].sets, reps |-> items[i].reps,
                     weight |-> items[i].weight,
                     workout_date |-> items[i].workout_date, created_at |-> t]]
          ins == DbInsert(table, rows)
      IN  IF ins.ok
          THEN Reply(ins.table, 201, SubSeq(ins.table, Len(table) + 1, Len(ins.table)))
          ELSE Reply(table, 500, <<>>)

\* part_001 (the server with PUT) POST /api/workouts: the body's fields as
\* sent, a body's id included, owned by the caller.
Srv1Post(table, user, b, id, t) ==
    LET workout ==
          [id |-> IF b.id = NoId THEN Uuid(id) ELSE b.id, user_id |-> user,
           exercise |-> b.exercise, sets |-> b.sets, reps |-> b.reps,
           weight |-> b.weight, workout_date |-> b.workout_date, created_at |-> t]
        ins == DbInsert(table, <<workout>>)
    IN  IF ins.ok THEN Reply(ins.table, 201, <<ins.table[Len(ins.table)]>>)
        ELSE Reply(table, 500, <<>>)

\* update(body): every column the body names is set, id and user_id included.
DbPatch(row, b) ==
    [id |-> IF b.id = NoId THEN row.id ELSE b.id,
     user_id |-> IF b.user_id = NoUser THEN row.user_id ELSE b.user_id,
     exercise |-> IF b.exercise.t = "str" THEN b.exercise.s ELSE row.exercise,
     sets |-> IF b.sets.t = "null" THEN row.sets ELSE DbInteger(b.sets),
     reps |-> IF b.reps.t = "null" THEN row.reps ELSE DbInteger(b.reps),
     weight |-> IF b.weight.t = "null" THEN row.weight ELSE DbInteger(b.weight),
     workout_date |-> IF b.workout_date.k = "day" THEN b.workout_date.d
                      ELSE row.workout_date,
     created_at |-> row.created_at]

\* The table's constraints on an updated row at position i.
DbPatchOk(table, i, b) ==
    LET new == DbPatch(table[i], b)
    IN  /\ PosInt(new.sets) /\ PosInt(new.reps) /\ PosInt(new.weight)
        /\ b.workout_date.k # "invalid"
        /\ new.user_id \in Users
        /\ \A j \in 1..Len(table) : j # i => table[j].id # new.id

\* part_001 PUT /api/workouts/:id: update(req.body) of the caller's row.
Srv1Put(table, user, id, b) ==
    LET hit == {i \in 1..Len(table) : table[i].id = id /\ table[i].user_id = user}
    IN  IF hit = {} THEN Reply(table, 404, <<>>)
        ELSE LET i == CHOOSE k \in hit : TRUE
             IN  IF ~DbPatchOk(table, i, b) THEN Reply(table, 500, <<>>)
                 ELSE Reply([table EXCEPT ![i] = DbPatch(table[i], b)], 200,
                            <<DbPatch(table[i], b)>>)

\* part_001 DELETE /api/workouts/:id
Srv1Delete(table, user, id) ==
    Reply(SelectSeq(table, LAMBDA r : ~(r.id = id /\ r.user_id = user)), 200, <<>>)

(***************************************************************************)
(* Aggregates.  JavaScript arithmetic on a record's numbers: null counts   *)
(* as 0, undefined and NaN give NaN.  The integers of the model stay far   *)
(* below 2^53, where the arithmetic of JavaScript numbers is exact.        *)
(***************************************************************************)
JsMul(a, b) ==
    IF a.k \in {"int", "null"} /\ b.k \in {"int", "null"} THEN IntV(a.v * b.v) ELSE NaN

JsAdd(a, b) ==
    IF a.k \in {"int", "null"} /\ b.k \in {"int", "null"} THEN IntV(a.v + b.v) ELSE NaN

\* A variant that leaves the sets out.
VolumeWithoutSets(w) == JsMul(w.reps, w.weight)

\* workout.sets * workout.reps * workout.weight
Volume(w) == JsMul(JsMul(w.sets, w.reps), w.weight)

\* forEach / reduce with +=, from the first element on, starting at 0.
RECURSIVE JsSum(_)
JsSum(q) ==
    IF q = <<>> THEN IntV(0) ELSE JsAdd(JsSum(SubSeq(q, 1, Len(q) - 1)), q[Len(q)])

\* A variant that truncates (Math.floor).
JsFloorDiv(total, n) ==
    IF total.k = "int" THEN IntV(total.v \div n) ELSE NaN

\* Math.round(total / n): the nearest integer, halves towards +Infinity.
JsRoundDiv(total, n) ==
    IF total.k = "int" THEN IntV((2 * total.v + n) \div (2 * n)) ELSE NaN

\* The statistics of the filtered records (script.js updateStats, /api/stats).
StatsOf(ws) ==
    [workouts |-> Len(ws),
     totalVolume |-> JsSum([i \in 1..Len(ws) |-> Volume(ws[i])]),
     avgWeight |-> IF Len(ws) > 0
                   THEN JsRoundDiv(JsSum([i \in 1..Len(ws) |-> ws[i].weight]), Len(ws))
                   ELSE IntV(0)]

\* script.js updateStats: the records whose day is today.
LUpdateStats(ws, today) == StatsOf(SelectSeq(ws, LAMBDA w : w.rawDate = today))

\* part_000 GET /api/stats: the caller's rows dated today, and the caller's count.
Srv0StatsRows(table, user, today) ==
    SelectSeq(table, LAMBDA r : r.user_id = user /\ r.workout_date = today)

Srv0Stats(table, user, today) ==
    [today |-> StatsOf(Srv0StatsRows(table, user, today)),
     totalWorkouts |-> Len(SelectSeq(table, LAMBDA r : r.user_id = user))]

\* part_000 GET /api/analytics: the period's length in days.
PeriodDays(period) ==
    CASE period = "7days" -> 7 [] period = "30days" -> 30 [] period = "90days" -> 90
      [] OTHER -> 30

\* The caller's rows from startDate = today - days on, oldest first.
RECURSIVE InsertByDate(_, _)
InsertByDate(q, r) ==
    IF q = <<>> THEN <<r>>
    ELSE IF Head(q).workout_date <= r.workout_date
    THEN <<Head(q)>> \o InsertByDate(Tail(q), r)
    ELSE <<r>> \o q

RECURSIVE OldestFirst(_)
OldestFirst(q) ==
    IF q = <<>> THEN <<>>
    ELSE InsertByDate(OldestFirst(SubSeq(q, 1, Len(q) - 1)), q[Len(q)])

Srv0AnalyticsRows(table, user, period, today) ==
    OldestFirst(SelectSeq(table, LAMBDA r :
        r.user_id = user /\ r.workout_date >= today - PeriodDays(period)))

\* The keys of an object in ascending order (sort by localeCompare).
RECURSIVE Ascending(_)
Ascending(S) ==
    IF S = {} THEN <<>>
    ELSE LET m == CHOOSE x \in S : \A y \in S : x <= y
         IN  <<m>> \o Ascending(S \ {m})

\* workoutsByDate: one entry per date that has a workout, with its volume.
ByDate(ws) ==
    LET dates == Ascending({ws[i].workout_date : i \in 1..Len(ws)})
    IN  [k \in 1..Len(dates) |->
            [date |-> dates[k],
             volume |-> JsSum([i \in 1..Len(SelectSeq(ws, LAMBDA w : w.workout_date = dates[k]))
                                 |-> Volume(SelectSeq(ws, LAMBDA w : w.workout_date = dates[k])[i])])]]

\* topExercises: the count of each exercise, the most frequent first, ten at most.
TopLimit == 10

RECURSIVE FirstSeen(_)
FirstSeen(q) ==
    IF q = <<>> THEN <<>>
    ELSE LET front == FirstSeen(SubSeq(q, 1, Len(q) - 1))
         IN  IF \E i \in 1..Len(front) : front[i] = q[Len(q)] THEN front
             ELSE Append(front, q[Len(q)])

RECURSIVE InsertByCount(_, _)
InsertByCount(q, e) ==
    IF q = <<>> THEN <<e>>
    ELSE IF Head(q).count >= e.count THEN <<Head(q)>> \o InsertByCount(Tail(q), e)
    ELSE <<e>> \o q

RECURSIVE MostFrequentFirst(_)
MostFrequentFirst(q) ==
    IF q = <<>> THEN <<>>
    ELSE InsertByCount(MostFrequentFirst(SubSeq(q, 1, Len(q) - 1)), q[Len(q)])

\* A property name that is an array index ("0", "7", "10", not "07"): such
\* names are enumerated first, in ascending numeric order, whatever the order
\* they were created in.
IsArrayIndex(s) ==
    /\ s # <<>> /\ Len(s) <= 9
    /\ \A i \in 1..Len(s) : s[i] \in Digits
    /\ (Len(s) > 1 => s[1] # "0")

\* Object.entries(obj): the array indices ascending, then the other names in
\* the order of their creation.
OwnKeys(created) ==
    LET idx == SelectSeq(created, IsArrayIndex)
        values == Ascending({DigitsValue(idx[i]) : i \in 1..Len(idx)})
    IN  [k \in 1..Len(values) |->
            CHOOSE s \in {idx[i] : i \in 1..Len(idx)} : DigitsValue(s) = values[k]]
        \o SelectSeq(created, LAMBDA s : ~IsArrayIndex(s))

TopExercises(ws) ==
    LET names == OwnKeys(FirstSeen([i \in 1..Len(ws) |-> ws[i].exercise]))
        counted == [k \in 1..Len(names) |->
                      [exercise |-> names[k],
                       count |-> Cardinality({i \in 1..Len(ws) : ws[i].exercise = names[k]})]]
        sorted == MostFrequentFirst(counted)
    IN  SubSeq(sorted, 1, IF Len(sorted) < TopLimit THEN Len(sorted) ELSE TopLimit)

Srv0Analytics(table, user, period, today) ==
    LET ws == Srv0AnalyticsRows(table, user, period, today)
    IN  [period |-> period,
         totalWorkouts |-> Len(ws),
         totalVolume |-> JsSum([i \in 1..Len(ws) |-> Volume(ws[i])]),
         averageWeight |-> IF Len(ws) > 0
                           THEN JsRoundDiv(JsSum([i \in 1..Len(ws) |-> ws[i].weight]), Len(ws))
                           ELSE IntV(0),
         workoutsByDate |-> ByDate(ws),
         topExercises |-> TopExercises(ws)]

(***************************************************************************)
(* HTTP requests in flight.  stage: "sent" (not yet handled), "ok" (a 2xx  *)
(* response on its way), "fail" (a non-ok response, or fetch rejecting).   *)
(***************************************************************************)
Request(rid, kind, user, body, items, target, ctx) ==
    [rid |-> rid, kind |-> kind, user |-> user, body |-> body, items |-> items,
     target |-> target, ctx |-> ctx, stage |-> "sent", rows |-> <<>>]

Send(r) ==
    /\ net' = net \cup {r}
    /\ nextReq' = nextReq + 1

\* The main server (part_000) handles one request.
Srv0Handle(r) ==
    /\ r \in net /\ r.stage = "sent"
    /\ IF r.kind \in {"POST", "BATCH"}
       THEN \E t \in ClockReads(srvNow) : srvNow' = t
       ELSE UNCHANGED srvNow
    /\ LET reply ==
            CASE r.kind = "GET" -> Srv0Get(db, r.user)
              [] r.kind = "POST" -> Srv0Post(db, r.user, r.body, nextId, srvNow')
              [] r.kind = "DELETE" -> Srv0Delete(db, r.user, r.target)
              [] r.kind = "BATCH" -> Srv0Batch(db, r.user, r.items, nextId, srvNow')
       IN  /\ db' = reply.table
           /\ nextId' = nextId + (Len(reply.table) - Len(db)) * (IF r.kind = "DELETE" THEN 0 ELSE 1)
           /\ net' = (net \ {r}) \cup
                {[r EXCEPT !.stage = IF reply.status < 300 THEN "ok" ELSE "fail",
                           !.rows = reply.rows]}
    /\ UNCHANGED <<now, nextReq, lVars, sVars, hVars>>

\* The token is not resolved (401), the network fails, or the response is lost.
NetFail(r) ==
    /\ r \in net /\ r.stage \in {"sent", "ok"}
    /\ net' = (net \ {r}) \cup {[r EXCEPT !.stage = "fail", !.rows = <<>>]}
    /\ UNCHANGED <<now, srvNow, nextReq, lVars, dbVars, sVars, hVars>>

(***************************************************************************)
(* frontend/config.js: the server-backed tracker.                          *)
(***************************************************************************)
\* loadWorkouts up to its fetch; tok: the auth module holds a session token.
SLoadStart(user, tok) ==
    IF user = NoUser THEN UNCHANGED <<net, nextReq, sWorkouts, sMsg>>
    ELSE IF ~tok
    THEN /\ sMsg' = "Failed to load workouts"
         /\ sWorkouts' = <<>>
         /\ UNCHANGED <<net, nextReq>>
    ELSE /\ Send(Request(nextReq, "GET", user, NoBody, <<>>, NoId, ""))
         /\ UNCHANGED <<sWorkouts, sMsg>>

\* The 'authStateChanged' listener: currentUser = e.detail.user; loadWorkouts().
SAuthStateChanged(user, tok) ==
    /\ nextReq <= MaxReqs
    /\ sUser' = user
    /\ SLoadStart(user, tok)
    /\ UNCHANGED <<now, srvNow, lVars, dbVars, hVars>>

\* loadWorkouts after its fetch: the collection is replaced, or emptied on failure.
SLoadResp(r) ==
    /\ r \in net /\ r.kind = "GET" /\ r.stage \in {"ok", "fail"}
    /\ net' = net \ {r}
    /\ IF r.stage = "ok"
       THEN /\ sWorkouts' = r.rows
            /\ UNCHANGED sMsg
       ELSE /\ sWorkouts' = <<>>
            /\ sMsg' = "Failed to load workouts"
    /\ UNCHANGED <<now, srvNow, nextReq, lVars, dbVars, sUser, hVars>>

\* addWorkout's validation: the message of the first failing check, or "ok".
SValidate(f) ==
    IF \/ Trim(f.exercise) = <<>> \/ f.sets = <<>> \/ f.reps = <<>>
       \/ f.weight = <<>> \/ f.workoutDate.k = "empty"
    THEN "Please fill in all fields"
    ELSE IF f.workoutDate.k = "invalid" THEN "Invalid date"
    ELSE IF LeZero(Str(f.sets)) \/ LeZero(Str(f.reps)) \/ LeZero(Str(f.weight))
    THEN "Values must be greater than 0"
    ELSE "ok"

\* SValidate of every submission, computed once.
SVerdict == [f \in Forms \cup {LaterForm} |-> SValidate(f)]

\* workoutData as JSON.stringify sends it.
SWorkoutData(f) ==
    [NoBody EXCEPT !.exercise = Str(Trim(f.exercise)),
                   !.sets = IntJson(ParseIntStr(f.sets)),
                   !.reps = IntJson(ParseIntStr(f.reps)),
                   !.weight = IntJson(ParseIntStr(f.weight)),
                   !.workout_date = f.workoutDate]

\* addWorkout up to its fetch.
SAddWorkout(f, tok) ==
    /\ nextReq <= MaxReqs
    /\ IF sUser = NoUser
       THEN /\ sMsg' = "Please login to add workouts"
            /\ UNCHANGED <<net, nextReq>>
       ELSE IF SVerdict[f] # "ok"
       THEN /\ sMsg' = SVerdict[f]
            /\ UNCHANGED <<net, nextReq>>
       ELSE IF ~tok
       THEN /\ sMsg' = "No authentication token"
            /\ UNCHANGED <<net, nextReq>>
       ELSE /\ Send(Request(nextReq, "POST", sUser, SWorkoutData(f), <<>>, NoId, ""))
            /\ UNCHANGED sMsg
    /\ UNCHANGED <<now, srvNow, lVars, dbVars, sUser, sWorkouts, hVars>>

\* addWorkout after its fetch: the created row is unshifted.
SAddResp(r) ==
    /\ r \in net /\ r.kind = "POST" /\ r.stage \in {"ok", "fail"}
    /\ net' = net \ {r}
    /\ IF r.stage = "ok"
       THEN /\ sWorkouts' = r.rows \o sWorkouts
            /\ sMsg' = "Workout added successfully!"
       ELSE /\ sMsg' = "Failed to add workout"
            /\ UNCHANGED sWorkouts
    /\ UNCHANGED <<now, srvNow, nextReq, lVars, dbVars, sUser, hVars>>

\* deleteWorkout(id), confirmed, up to its fetch.
SDeleteWorkout(id, tok) ==
    /\ nextReq <= MaxReqs
    /\ \E i \in 1..Len(sWorkouts) : sWorkouts[i].id = id
    /\ IF ~tok
       THEN /\ sMsg' = "Failed to delete workout"
            /\ UNCHANGED <<net, nextReq>>
       ELSE /\ Send(Request(nextReq, "DELETE", sUser, NoBody, <<>>, id, ""))
            /\ UNCHANGED sMsg
    /\ UNCHANGED <<now, srvNow, lVars, dbVars, sUser, sWorkouts, hVars>>

\* deleteWorkout after its fetch: the record is filtered out only on success.
SDeleteResp(r) ==
    /\ r \in net /\ r.kind = "DELETE" /\ r.ctx = "" /\ r.stage \in {"ok", "fail"}
    /\ net' = net \ {r}
    /\ IF r.stage = "ok"
       THEN /\ sWorkouts' = SelectSeq(sWorkouts, LAMBDA w : w.id # r.target)
            /\ sMsg' = "Workout deleted"
       ELSE /\ sMsg' = "Failed to delete workout"
            /\ UNCHANGED sWorkouts
    /\ UNCHANGED <<now, srvNow, nextReq, lVars, dbVars, sUser, hVars>>

\* clearAllWorkouts, confirmed, up to its first fetch.  sClear holds the loop:
\* the ids still to delete after the one in flight, and deletedCount.
SClearAllWorkouts(tok) ==
    /\ nextReq <= MaxReqs
    /\ sClear.k # "running"
    /\ IF sWorkouts = <<>>
       THEN /\ sMsg' = "No workouts to clear"
            /\ UNCHANGED <<net, nextReq, sClear>>
       ELSE IF ~tok
       THEN /\ sMsg' = "Failed to clear workouts"
            /\ sClear' = [k |-> "failed", ids |-> <<>>, deletedCount |-> 0, removed |-> 0]
            /\ UNCHANGED <<net, nextReq>>
       ELSE /\ Send(Request(nextReq, "DELETE", sUser, NoBody, <<>>, sWorkouts[1].id, "clear"))
            /\ sClear' = [k |-> "running",
                          ids |-> [i \in 1..(Len(sWorkouts) - 1) |-> sWorkouts[i + 1].id],
                          deletedCount |-> 0, removed |-> 0]
            /\ UNCHANGED sMsg
    /\ UNCHANGED <<now, srvNow, lVars, dbVars, sUser, sWorkouts, hVars,
                   history, probe, screen, boot, authUser, lTimer, sTimer>>

\* clearAllWorkouts after one of its fetches.  A response that is not ok is
\* passed over; a fetch that rejects ends the loop in the catch block; after
\* the last id the collection is emptied.
SClearResp(r, rejected) ==
    /\ r \in net /\ r.kind = "DELETE" /\ r.ctx = "clear" /\ r.stage \in {"ok", "fail"}
    /\ sClear.k = "running"
    /\ rejected => r.stage = "fail"
    /\ LET count == sClear.deletedCount + (IF r.stage = "ok" THEN 1 ELSE 0)
       IN  IF rejected
           THEN /\ net' = net \ {r}
                /\ sClear' = [sClear EXCEPT !.k = "failed"]
                /\ sMsg' = "Failed to clear workouts"
                /\ UNCHANGED <<nextReq, sWorkouts>>
           ELSE IF sClear.ids # <<>>
           THEN /\ net' = (net \ {r}) \cup
                        {Request(nextReq, "DELETE", sUser, NoBody, <<>>, sClear.ids[1], "clear")}
                /\ nextReq' = nextReq + 1
                /\ sClear' = [sClear EXCEPT !.ids = Tail(@), !.deletedCount = count]
                /\ UNCHANGED <<sWorkouts, sMsg>>
           ELSE /\ net' = net \ {r}
                /\ sClear' = [sClear EXCEPT !.k = "done", !.deletedCount = count]
                /\ sWorkouts' = <<>>
                /\ sMsg' = "Cleared workouts"
                /\ UNCHANGED nextReq
    /\ UNCHANGED <<now, srvNow, lVars, dbVars, sUser, hVars,
                   history, probe, screen, boot, authUser, lTimer, sTimer>>

\* The server handles a request; a DELETE of clearAllWorkouts that removes a
\* row is counted.
Srv0HandleCounted(r) ==
    /\ Srv0Handle(r)
    /\ sClear' = IF r.ctx = "clear" /\ sClear.k = "running" /\ Len(db') < Len(db)
                 THEN [sClear EXCEPT !.removed = @ + 1] ELSE sClear
    /\ UNCHANGED <<history, probe, screen, boot, authUser, lTimer, sTimer>>

(***************************************************************************)
(* part_003: the tracker that keeps its records in localStorage and pushes *)
(* each new one to the server.                                             *)
(***************************************************************************)
LocalId(t) == <<"ts", t>>

\* JSON.parse(JSON.stringify(workouts))
HJson(ws) ==
    [i \in 1..Len(ws) |->
        [ws[i] EXCEPT !.sets = JsonNum(@), !.reps = JsonNum(@), !.weight = JsonNum(@)]]

\* loadWorkouts: the collection is read back from localStorage.
HLoadWorkouts(user) ==
    IF user = NoUser THEN UNCHANGED hWorkouts ELSE hWorkouts' = hStorage

\* The 'authStateChanged' listener.
HAuthStateChanged(user) ==
    /\ hUser' = user
    /\ IF user # NoUser THEN HLoadWorkouts(user) ELSE hWorkouts' = <<>>
    /\ UNCHANGED <<now, srvNow, lVars, dbVars, net, nextReq, sVars, hStorage, hMsg>>

\* A validation that lacks the `<= 0` check.
HValidateNoPositiveCheck(f) ==
    IF \/ Trim(f.exercise) = <<>> \/ f.sets = <<>> \/ f.reps = <<>>
       \/ f.weight = <<>> \/ f.workoutDate.k = "empty"
    THEN "Please fill all fields"
    ELSE IF \/ ParseIntStr(f.sets).k = "nan" \/ ParseIntStr(f.reps).k = "nan"
            \/ ParseIntStr(f.weight).k = "nan"
    THEN "Please enter valid numbers"
    ELSE "ok"

\* addWorkout's validation: the message of the first failing check, or "ok".
HValidate(f) ==
    IF \/ Trim(f.exercise) = <<>> \/ f.sets = <<>> \/ f.reps = <<>>
       \/ f.weight = <<>> \/ f.workoutDate.k = "empty"
    THEN "Please fill all fields"
    ELSE IF \/ ParseIntStr(f.sets).k = "nan" \/ ParseIntStr(f.reps).k = "nan"
            \/ ParseIntStr(f.weight).k = "nan"
    THEN "Please enter valid numbers"
    ELSE IF \/ IntLeZero(ParseIntStr(f.sets)) \/ IntLeZero(ParseIntStr(f.reps))
            \/ IntLeZero(ParseIntStr(f.weight))
    THEN "Values must be greater than 0"
    ELSE "ok"

\* HValidate of every submission, computed once.
HVerdict == [f \in Forms |-> HValidate(f)]

HRecord(f, t, user) ==
    [id |-> LocalId(t), user_id |-> user, exercise |-> Trim(f.exercise),
     sets |-> ParseIntStr(f.sets), reps |-> ParseIntStr(f.reps),
     weight |-> ParseIntStr(f.weight), workout_date |-> f.workoutDate,
     created_at |-> t]

\* The body saveToBackend posts.
HPushBody(w) ==
    [NoBody EXCEPT !.exercise = Str(w.exercise), !.sets = IntJson(w.sets),
                   !.reps = IntJson(w.reps), !.weight = IntJson(w.weight),
                   !.workout_date = w.workout_date]

\* addWorkout up to saveToBackend's await of getSession().
HAddWorkout(f) ==
    /\ nextReq <= MaxReqs
    /\ IF hUser = NoUser
       THEN /\ hMsg' = "Please login first"
            /\ UNCHANGED <<now, hWorkouts, hStorage, net, nextReq>>
       ELSE IF HVerdict[f] # "ok"
       THEN /\ hMsg' = HVerdict[f]
            /\ UNCHANGED <<now, hWorkouts, hStorage, net, nextReq>>
       ELSE \E t \in ClockReads(now) :
            LET w == HRecord(f, t, hUser)
            IN  /\ now' = t
                /\ hWorkouts' = <<w>> \o hWorkouts
                /\ hStorage' = HJson(hWorkouts')
                /\ hMsg' = "Workout added successfully!"
                /\ Send([Request(nextReq, "POST", hUser, HPushBody(w), <<>>, w.id, "push")
                            EXCEPT !.stage = "session"])
    /\ UNCHANGED <<srvNow, lVars, dbVars, sVars, hUser>>

\* saveToBackend after getSession(): without a token the push is skipped
\* (console.log only).
HSaveToBackend(r, tok) ==
    /\ r \in net /\ r.ctx = "push" /\ r.stage = "session"
    /\ net' = IF tok THEN (net \ {r}) \cup {[r EXCEPT !.stage = "sent"]} ELSE net \ {r}
    /\ UNCHANGED <<now, srvNow, nextReq, lVars, dbVars, sVars, hVars>>

\* A saveToBackend that rolls the record back when the push fails.
HSaveRespRollback(r) ==
    /\ r \in net /\ r.ctx = "push" /\ r.stage \in {"ok", "fail"}
    /\ net' = net \ {r}
    /\ IF r.stage = "fail"
       THEN /\ hWorkouts' = SelectSeq(hWorkouts, LAMBDA w : w.id # r.target)
            /\ hStorage' = SelectSeq(hStorage, LAMBDA w : w.id # r.target)
       ELSE UNCHANGED <<hWorkouts, hStorage>>
    /\ UNCHANGED <<now, srvNow, nextReq, lVars, dbVars, sVars, hUser, hMsg>>

\* saveToBackend after its fetch: response.ok or not, a rejected fetch or not,
\* the outcome is written to the console and nothing else happens.
HSaveResp(r) ==
    /\ r \in net /\ r.ctx = "push" /\ r.stage \in {"ok", "fail"}
    /\ net' = net \ {r}
    /\ UNCHANGED <<now, srvNow, nextReq, lVars, dbVars, sVars, hVars>>

\* deleteWorkout(id), confirmed: local only.
HDeleteWorkout(id) ==
    /\ \E i \in 1..Len(hWorkouts) : hWorkouts[i].id = id
    /\ hWorkouts' = SelectSeq(hWorkouts, LAMBDA w : w.id # id)
    /\ hStorage' = HJson(hWorkouts')
    /\ hMsg' = "Workout deleted"
    /\ UNCHANGED <<now, srvNow, nextReq, net, lVars, dbVars, sVars, hUser>>

(***************************************************************************)
(* script.js: the local-only tracker.                                      *)
(***************************************************************************)
\* JSON.stringify of the collection, as JSON.parse reads it back.
LJson(ws) ==
    [i \in 1..Len(ws) |->
        [ws[i] EXCEPT !.sets = JsonNum(@), !.reps = JsonNum(@), !.weight = JsonNum(@)]]

\* addWorkout's validation: the message of the first failing check, or "ok".
LValidate(f) ==
    IF \/ Trim(f.exercise) = <<>> \/ f.sets = <<>> \/ f.reps = <<>>
       \/ f.weight = <<>> \/ f.workoutDate.k = "empty"
    THEN "Please fill in all fields"
    ELSE IF f.workoutDate.k = "invalid" THEN "Invalid date"
    ELSE IF LeZero(Str(f.sets)) \/ LeZero(Str(f.reps)) \/ LeZero(Str(f.weight))
    THEN "Values must be greater than 0"
    ELSE "ok"

\* LValidate of every submission, computed once.
LVerdict == [f \in Forms |-> LValidate(f)]

LRecord(f, id) ==
    [id |-> id, exercise |-> Trim(f.exercise), sets |-> ParseIntStr(f.sets),
     reps |-> ParseIntStr(f.reps), weight |-> ParseIntStr(f.weight),
     rawDate |-> f.workoutDate.d]

LAddWorkout(f) ==
    /\ Len(lWorkouts) < MaxWorkouts
    /\ IF LVerdict[f] # "ok"
       THEN /\ lMsg' = LVerdict[f]
            /\ UNCHANGED <<now, lWorkouts, lStorage>>
       ELSE \E t \in ClockReads(now) :
            /\ now' = t
            /\ lWorkouts' = <<LRecord(f, t)>> \o lWorkouts
            /\ lStorage' = LJson(lWorkouts')
            /\ lMsg' = "Workout added successfully!"
    /\ UNCHANGED <<srvNow, lReading, dbVars, net, nextReq, sVars, hVars>>

\* deleteWorkout(id), confirmed: every record with that id is filtered out.
LDeleteWorkout(id) ==
    /\ \E i \in 1..Len(lWorkouts) : lWorkouts[i].id = id
    /\ lWorkouts' = SelectSeq(lWorkouts, LAMBDA w : w.id # id)
    /\ lStorage' = LJson(lWorkouts')
    /\ lMsg' = "Workout deleted"
    /\ UNCHANGED <<now, srvNow, lReading, dbVars, net, nextReq, sVars, hVars>>

\* clearAllWorkouts, confirmed.
LClearAllWorkouts ==
    /\ IF Len(lWorkouts) = 0
       THEN /\ lMsg' = "No workouts to clear"
            /\ UNCHANGED <<lWorkouts, lStorage>>
       ELSE /\ lWorkouts' = <<>>
            /\ lStorage' = <<>>
            /\ lMsg' = "All workouts cleared"
    /\ UNCHANGED <<now, srvNow, lReading, dbVars, net, nextReq, sVars, hVars>>

\* importData: the FileReader starts reading the chosen file.
LImportData(file) ==
    /\ lReading = NoFile
    /\ lReading' = file
    /\ UNCHANGED <<now, srvNow, lWorkouts, lStorage, lMsg, dbVars, net, nextReq, sVars, hVars>>

\* reader.onload: JSON.parse, Array.isArray, then the collection is replaced.
LImportOnload ==
    /\ lReading # NoFile
    /\ lReading' = NoFile
    /\ IF lReading.k # "array"
       THEN /\ lMsg' = "Invalid file format. Please import a valid JSON file."
            /\ UNCHANGED <<lWorkouts, lStorage>>
       ELSE /\ lWorkouts' = lReading.items
            /\ lStorage' = LJson(lWorkouts')
            /\ lMsg' = "Imported workouts successfully!"
    /\ UNCHANGED <<now, srvNow, dbVars, net, nextReq, sVars, hVars>>

(***************************************************************************)
(* Authenticated callers of the API (authenticateToken resolved the token  *)
(* to `user`), each request handled in one step.  Both servers work on the *)
(* one workouts table.                                                     *)
(***************************************************************************)
GoodBody ==
    [NoBody EXCEPT !.exercise = Str(<<"S">>), !.sets = NumV(3000), !.reps = NumV(3000),
                   !.weight = NumV(3000), !.workout_date = Day(1)]

\* Request bodies: complete ones, with or without id and user_id, and partial ones.
ApiBodies ==
    { GoodBody, [GoodBody EXCEPT !.user_id = "A"], [GoodBody EXCEPT !.user_id = "B"],
      [GoodBody EXCEPT !.id = Uuid(1)], [GoodBody EXCEPT !.sets = NumV(0)],
      [NoBody EXCEPT !.user_id = "A"], [NoBody EXCEPT !.user_id = "B"],
      [NoBody EXCEPT !.sets = NumV(5000)], [NoBody EXCEPT !.id = Uuid(2)] }

ApiBatches ==
    SeqsUpTo({GoodBody, [GoodBody EXCEPT !.user_id = "B"], [GoodBody EXCEPT !.sets = NullV]},
             MaxWorkouts)

\* part_001 POST /api/workouts
ApiPost(user, b) ==
    /\ nextReq <= MaxCalls
    /\ \E t \in ClockReads(srvNow) :
         LET reply == Srv1Post(db, user, b, nextId, t)
         IN  /\ srvNow' = t
             /\ db' = reply.table
             /\ nextId' = IF reply.status = 201 /\ b.id = NoId THEN nextId + 1 ELSE nextId
    /\ nextReq' = nextReq + 1
    /\ UNCHANGED <<now, net, lVars, sVars, hVars>>

\* part_001 PUT /api/workouts/:id
ApiPut(user, id, b) ==
    /\ nextReq <= MaxCalls
    /\ db' = Srv1Put(db, user, id, b).table
    /\ nextReq' = nextReq + 1
    /\ UNCHANGED <<now, srvNow, nextId, net, lVars, sVars, hVars>>

\* part_001 DELETE /api/workouts/:id
ApiDelete(user, id) ==
    /\ nextReq <= MaxCalls
    /\ db' = Srv1Delete(db, user, id).table
    /\ nextReq' = nextReq + 1
    /\ UNCHANGED <<now, srvNow, nextId, net, lVars, sVars, hVars>>

\* part_000 POST /api/workouts/batch
ApiBatch(user, items) ==
    /\ nextReq <= MaxCalls
    /\ \E t \in ClockReads(srvNow) :
         LET reply == Srv0Batch(db, user, items, nextId, t)
         IN  /\ srvNow' = t
             /\ db' = reply.table
             /\ nextId' = IF reply.status = 201 THEN nextId + Len(items) ELSE nextId
    /\ nextReq' = nextReq + 1
    /\ UNCHANGED <<now, net, lVars, sVars, hVars>>

(***************************************************************************)
(* The API under any caller: each request carries a credential, passes     *)
(* the authentication of its server, and only then reaches the handler.    *)
(* resp keeps the response and the number of queries on the workouts table.*)
(***************************************************************************)
\* What a request carries: no Authorization header, a header without a token,
\* a token the identity provider rejects, a token for which getUser throws,
\* or a token of user A or B.
Creds == {"noheader", "notoken", "bad", "throws"} \cup Users

\* A lenient variant: every token that is present is taken for a session of A.
AuthenticateAnyToken(cred) ==
    IF cred \in {"noheader", "notoken"} THEN [status |-> 401, user |-> NoUser]
    ELSE [status |-> 0, user |-> IF cred \in Users THEN cred ELSE "A"]

\* authenticateToken (part_000, and the same in part_001): status 0 is next().
Authenticate(cred) ==
    IF cred \in {"noheader", "notoken"} THEN [status |-> 401, user |-> NoUser]
    ELSE IF cred = "throws" THEN [status |-> 500, user |-> NoUser]
    ELSE IF cred = "bad" THEN [status |-> 401, user |-> NoUser]
    ELSE [status |-> 0, user |-> cred]

\* The minimal server of part_001 authenticates inside its handler: without a
\* token getUser(undefined) finds no session and returns an error.
AuthenticateInline(cred) ==
    IF cred = "noheader" THEN [status |-> 401, user |-> NoUser]
    ELSE IF cred = "throws" THEN [status |-> 500, user |-> NoUser]
    ELSE IF cred \in {"notoken", "bad"} THEN [status |-> 401, user |-> NoUser]
    ELSE [status |-> 0, user |-> cred]

\* The calendar day of the run (CURRENT_DATE, new Date()).
Today == 1

\* The minimal server's POST /api/workouts: the fields must be truthy, then
\* parseInt and insert.
Srv2Post(table, user, b, id, t) ==
    IF \/ Falsy(b.exercise) \/ Falsy(b.sets) \/ Falsy(b.reps) \/ Falsy(b.weight)
       \/ b.workout_date.k = "empty"
    THEN Reply(table, 400, <<>>)
    ELSE IF b.exercise.t # "str" THEN Reply(table, 500, <<>>)
    ELSE
      LET workout ==
            [id |-> Uuid(id), user_id |-> user, exercise |-> Str(Trim(b.exercise.s)),
             sets |-> IntJson(JsParseInt(b.sets)), reps |-> IntJson(JsParseInt(b.reps)),
             weight |-> IntJson(JsParseInt(b.weight)),
             workout_date |-> b.workout_date, created_at |-> t]
          ins == DbInsert(table, <<workout>>)
      IN  IF ins.ok THEN Reply(ins.table, 201, <<ins.table[Len(ins.table)]>>)
          ELSE Reply(table, 500, <<>>)

GateBodies ==
    { GoodBody, [GoodBody EXCEPT !.user_id = "A"], [GoodBody EXCEPT !.user_id = "B"],
      [GoodBody EXCEPT !.workout_date = Day(2)], [NoBody EXCEPT !.sets = NumV(5000)] }

GateBatches == SeqsUpTo({GoodBody, [GoodBody EXCEPT !.user_id = "B"]}, MaxWorkouts)

Periods == {"7days", "30days", "90days", "1year"}

\* One request from arrival to response.  arg: the body, the id or the period
\* it carries; auth: the outcome of authentication;
\* reply: the handler's outcome for the authenticated user; queries: the
\* number of queries the handler runs on the workouts table.
Gated(srv, kind, cred, arg, auth, reply, data, queries) ==
    /\ nextReq <= MaxGateCalls
    /\ nextReq' = nextReq + 1
    /\ IF auth.status # 0
       THEN /\ resp' = [srv |-> srv, kind |-> kind, cred |-> cred, arg |-> arg, status |-> auth.status,
                        rows |-> <<>>, data |-> NoRet, queries |-> 0, before |-> db]
            /\ UNCHANGED <<db, nextId>>
       ELSE /\ resp' = [srv |-> srv, kind |-> kind, cred |-> cred, arg |-> arg, status |-> reply.status,
                        rows |-> reply.rows, data |-> data, queries |-> queries,
                        before |-> db]
            /\ db' = reply.table
            /\ nextId' = IF Len(reply.table) > Len(db)
                         THEN nextId + Len(reply.table) - Len(db) ELSE nextId
    /\ UNCHANGED <<now, net, lVars, sVars, hVars, history, call, ret, screen, page>>

\* part_000
Gate0Get(cred) ==
    LET auth == Authenticate(cred)
    IN  /\ Gated(0, "GET", cred, NoId, auth, Srv0Get(db, auth.user), NoRet, 1)
        /\ UNCHANGED srvNow

Gate0Post(cred, b) ==
    LET auth == Authenticate(cred)
    IN  \E t \in ClockReads(srvNow) :
          /\ srvNow' = IF auth.status = 0 THEN t ELSE srvNow
          /\ Gated(0, "POST", cred, b, auth, Srv0Post(db, auth.user, b, nextId, t), NoRet, 1)

Gate0Delete(cred, id) ==
    LET auth == Authenticate(cred)
    IN  /\ Gated(0, "DELETE", cred, id, auth, Srv0Delete(db, auth.user, id), NoRet, 1)
        /\ UNCHANGED srvNow

Gate0Batch(cred, items) ==
    LET auth == Authenticate(cred)
    IN  \E t \in ClockReads(srvNow) :
          /\ srvNow' = IF auth.status = 0 THEN t ELSE srvNow
          /\ Gated(0, "BATCH", cred, items, auth, Srv0Batch(db, auth.user, items, nextId, t),
                   NoRet, IF items = <<>> THEN 0 ELSE 1)

Gate0Stats(cred) ==
    LET auth == Authenticate(cred)
    IN  /\ Gated(0, "STATS", cred, NoId, auth,
                 Reply(db, 200, Srv0StatsRows(db, auth.user, Today)),
                 Srv0Stats(db, auth.user, Today), 2)
        /\ UNCHANGED srvNow

Gate0Analytics(cred, period) ==
    LET auth == Authenticate(cred)
    IN  /\ Gated(0, "ANALYTICS", cred, period, auth,
                 Reply(db, 200, Srv0AnalyticsRows(db, auth.user, period, Today)),
                 Srv0Analytics(db, auth.user, period, Today), 1)
        /\ UNCHANGED srvNow

\* part_001, the server with PUT
Gate1Post(cred, b) ==
    LET auth == Authenticate(cred)
    IN  \E t \in ClockReads(srvNow) :
          /\ srvNow' = IF auth.status = 0 THEN t ELSE srvNow
          /\ Gated(1, "POST", cred, b, auth, Srv1Post(db, auth.user, b, nextId, t), NoRet, 1)

Gate1Put(cred, id, b) ==
    LET auth == Authenticate(cred)
    IN  /\ Gated(1, "PUT", cred, id, auth, Srv1Put(db, auth.user, id, b), NoRet, 1)
        /\ UNCHANGED srvNow

Gate1Delete(cred, id) ==
    LET auth == Authenticate(cred)
    IN  /\ Gated(1, "DELETE", cred, id, auth, Srv1Delete(db, auth.user, id), NoRet, 1)
        /\ UNCHANGED srvNow

\* part_001, the minimal server
Gate2Post(cred, b) ==
    LET auth == AuthenticateInline(cred)
    IN  \E t \in ClockReads(srvNow) :
          /\ srvNow' = IF auth.status = 0 THEN t ELSE srvNow
          /\ Gated(2, "POST", cred, b, auth, Srv2Post(db, auth.user, b, nextId, t), NoRet,
                   IF Srv2Post(db, auth.user, b, nextId, t).status = 400 THEN 0 ELSE 1)

(***************************************************************************)
(* JavaScript numbers are IEEE 754 doubles.  A non-negative number is kept *)
(* as its integer part and the bits of its fraction, most significant      *)
(* first; every operation rounds its exact result to 53 significant bits,  *)
(* ties to even.                                                           *)
(***************************************************************************)
Significand == 53

\* Bits of a quotient's fraction that are produced before rounding: more than
\* a double keeps for any quotient of the model.
QuotientBits == 64

RECURSIVE BitLen(_)
BitLen(n) == IF n = 0 THEN 0 ELSE 1 + BitLen(n \div 2)

RECURSIVE LeadingZeros(_)
LeadingZeros(bits) ==
    IF bits = <<>> \/ Head(bits) = 1 THEN 0 ELSE 1 + LeadingZeros(Tail(bits))

\* bits + one unit in the last place: the carry out and the new bits.
AddUlp(bits) ==
    LET zeros == {i \in 1..Len(bits) : bits[i] = 0}
    IN  IF zeros = {} THEN [carry |-> 1, bits |-> [i \in 1..Len(bits) |-> 0]]
        ELSE LET last == CHOOSE i \in zeros : \A j \in zeros : j <= i
             IN  [carry |-> 0,
                  bits |-> [i \in 1..Len(bits) |->
                              IF i < last THEN bits[i] ELSE IF i = last THEN 1 ELSE 0]]

\* The double nearest to x + e, where 0 <= e < one unit of x's last bit and
\* e > 0 exactly if `inexact`.
RoundToDouble(x, inexact) ==
    LET keep == IF x.int > 0 THEN Significand - BitLen(x.int)
                ELSE LeadingZeros(x.frac) + Significand
    IN  IF Len(x.frac) <= keep THEN x
        ELSE LET kept == SubSeq(x.frac, 1, keep)
                 guard == x.frac[keep + 1]
                 rest == inexact \/ \E i \in (keep + 2)..Len(x.frac) : x.frac[i] = 1
                 odd == IF keep = 0 THEN x.int % 2 = 1 ELSE kept[keep] = 1
                 up == AddUlp(kept)
             IN  IF guard = 1 /\ (rest \/ odd)
                 THEN [int |-> x.int + up.carry, frac |-> up.bits]
                 ELSE [int |-> x.int, frac |-> kept]

\* Long division: k more bits of the fraction num/den (num < den) after the
\* bits `acc`, and what is left.
RECURSIVE FractionBits(_, _, _, _)
FractionBits(num, den, k, acc) ==
    IF k = 0 THEN [bits |-> acc, rem |-> num]
    ELSE FractionBits((2 * num) % den, den, k - 1, Append(acc, (2 * num) \div den))

\* a / b for integers a >= 0, b > 0
DoubleDiv(a, b) ==
    LET f == FractionBits(a % b, b, QuotientBits, <<>>)
    IN  RoundToDouble([int |-> a \div b, frac |-> f.bits], f.rem # 0)

\* n + x for an integer n >= 0 and a double x
DoubleAddInt(n, x) == RoundToDouble([int |-> n + x.int, frac |-> x.frac], FALSE)

\* The fraction bits times n, from the last bit (position i) to the first:
\* the carry into the integer part and the bits.
RECURSIVE TimesBits(_, _, _, _, _)
TimesBits(bits, n, i, carry, acc) ==
    IF i = 0 THEN [carry |-> carry, bits |-> acc]
    ELSE TimesBits(bits, n, i - 1, (n * bits[i] + carry) \div 2,
                   <<(n * bits[i] + carry) % 2>> \o acc)

\* n * x for an integer n >= 0 and a double x
DoubleMulInt(n, x) ==
    LET t == TimesBits(x.frac, n, Len(x.frac), 0, <<>>)
    IN  RoundToDouble([int |-> n * x.int + t.carry, frac |-> t.bits], FALSE)

\* Math.round: floor(x + 0.5), exactly.
MathRound(x) == x.int + (IF x.frac # <<>> /\ x.frac[1] = 1 THEN 1 ELSE 0)

\* calculateOneRM(weight, reps): Math.round(weight * (1 + reps / 30))
CalculateOneRM(weight, reps) ==
    IntV(MathRound(DoubleMulInt(weight, DoubleAddInt(1, DoubleDiv(reps, 30)))))

\* Weights and repetitions of a set.
LiftWeights == 1..30 \cup {135}
LiftReps == 1..60

(***************************************************************************)
(* The charts' series: entries [date, volume] in the order of the labels.  *)
(***************************************************************************)
ChartDays == 7

\* The volume of the records of one day.
DayVolume(ws, day, d) ==
    LET of == SelectSeq(ws, LAMBDA w : w[day] = d)
    IN  JsSum([i \in 1..Len(of) |-> Volume(of[i])])

\* The field that holds a record's day.
RawDay == "rawDate"
WorkoutDate == "workout_date"

\* script.js renderChart: the days that have a workout, in the order the
\* collection names them first, the last seven of them.
LRenderChart(ws) ==
    LET keys == FirstSeen([i \in 1..Len(ws) |-> ws[i].rawDate])
        dates == SubSeq(keys, IF Len(keys) > ChartDays THEN Len(keys) - ChartDays + 1 ELSE 1,
                        Len(keys))
    IN  [k \in 1..Len(dates) |-> [date |-> dates[k], volume |-> DayVolume(ws, RawDay, dates[k])]]

\* part_002 renderChart: the seven days up to today, each with its volume.
PRenderChart(ws, today) ==
    [k \in 1..ChartDays |->
        [date |-> today - (ChartDays - k),
         volume |-> DayVolume(ws, RawDay, today - (ChartDays - k))]]

\* frontend/config.js renderChart: no chart for an empty collection, else
\* the seven days up to today, each with its volume.
SRenderChart(ws, today) ==
    IF Len(ws) = 0 THEN <<>>
    ELSE [k \in 1..ChartDays |->
            [date |-> today - (ChartDays - k),
             volume |-> DayVolume(ws, WorkoutDate, today - (ChartDays - k))]]

(***************************************************************************)
(* Computations on their own: a collection is given, the function runs     *)
(* once, its result is kept in ret.                                        *)
(***************************************************************************)
\* Records of the script.js collection: today's and yesterday's, with weights
\* whose means fall on and off a half, and one whose weight is NaN.
CalcRecords ==
    {[id |-> 1, exercise |-> <<"S">>, sets |-> IntV(2), reps |-> IntV(3), weight |-> w,
      rawDate |-> d] : w \in {IntV(1), IntV(2), IntV(5), NaN}, d \in {Today - 1, Today}}

\* Rows of the workouts table around the edges of the 7-day window.
CalcDates == {Today - 8, Today - 7, Today - 6, Today, Today + 1}

CalcRows ==
    {[id |-> NoId, user_id |-> u, exercise |-> <<"S">>, sets |-> IntV(2), reps |-> IntV(3),
      weight |-> IntV(w), workout_date |-> d, created_at |-> 1] :
        u \in Users, w \in {1, 2}, d \in CalcDates}

\* A table: its rows carry their own ids, in insertion order.
CalcTables ==
    {[i \in 1..Len(q) |-> [q[i] EXCEPT !.id = Uuid(i), !.created_at = i]] :
        q \in SeqsUpTo(CalcRows, MaxWorkouts)}

\* Rows of the caller dated today whose exercise names differ; one name
\* reads as an integer.
ExerciseNames == {<<"S">>, <<"B">>, <<"7">>}

ExerciseTables ==
    {[i \in 1..Len(q) |->
        [id |-> Uuid(i), user_id |-> "A", exercise |-> q[i], sets |-> IntV(2),
         reps |-> IntV(3), weight |-> IntV(1), workout_date |-> Today, created_at |-> i]] :
        q \in SeqsUpTo(ExerciseNames, MaxWorkouts)}

\* Bodies posted to part_000: the good one with a number field zero, negative
\* or absent.
NumberFields == {"sets", "reps", "weight"}

ValidateBodies ==
    {GoodBody} \cup {[GoodBody EXCEPT ![fld] = v] :
                        fld \in NumberFields, v \in {NumV(0), NumV(-5000), NullV}}

\* The validator's outcome: the message shown, or the code of the 400 response.
Validate(by, form) ==
    CASE by = "script.js" -> LValidate(form)
      [] by = "part_003" -> HValidate(form)
      [] by = "part_000" -> Srv0Validate(form)

CalcCalls ==
    {[fn |-> "updateStats", rows |-> q, user |-> NoUser, period |-> "", today |-> Today] :
        q \in SeqsUpTo(CalcRecords, MaxWorkouts)}
    \cup {[fn |-> "stats", rows |-> q, user |-> "A", period |-> "", today |-> Today] :
            q \in CalcTables}
    \cup {[fn |-> "analytics", rows |-> q, user |-> "A", period |-> p, today |-> Today] :
            q \in CalcTables, p \in Periods}
    \cup {[fn |-> "analytics", rows |-> q, user |-> "A", period |-> "7days", today |-> Today] :
            q \in ExerciseTables}
    \cup {[fn |-> "validate", by |-> b, form |-> f] :
            b \in {"script.js", "part_003"}, f \in Forms}
    \cup {[fn |-> "validate", by |-> "part_000", form |-> f] : f \in ValidateBodies}
    \cup {[fn |-> "calculateOneRM", weight |-> w, reps |-> r] :
            w \in LiftWeights, r \in LiftReps}
    \cup {[fn |-> f, rows |-> q, today |-> Today] :
            f \in {"script.renderChart", "part_002.renderChart"},
            q \in SeqsUpTo(CalcRecords, MaxWorkouts)}
    \cup {[fn |-> "config.renderChart", rows |-> q, today |-> Today] : q \in CalcTables}

\* The result of a call.
CalcApply(c) ==
    CASE c.fn = "updateStats" -> LUpdateStats(c.rows, c.today)
      [] c.fn = "stats" -> Srv0Stats(c.rows, c.user, c.today).today
      [] c.fn = "analytics" -> Srv0Analytics(c.rows, c.user, c.period, c.today)
      [] c.fn = "calculateOneRM" -> CalculateOneRM(c.weight, c.reps)
      [] c.fn = "script.renderChart" -> LRenderChart(c.rows)
      [] c.fn = "part_002.renderChart" -> PRenderChart(c.rows, c.today)
      [] c.fn = "config.renderChart" -> SRenderChart(c.rows, c.today)
      [] c.fn = "validate" -> Validate(c.by, c.form)

Run(fn) ==
    /\ call.fn = fn /\ ret = NoRet
    /\ ret' = [k |-> "done", v |-> CalcApply(call)]
    /\ UNCHANGED <<now, srvNow, lVars, dbVars, net, nextReq, sVars, hVars, history,
                   resp, call, screen, page>>

(***************************************************************************)
(* What the pages show.  updateStats and renderChart write the page from   *)
(* the collection; a handler that calls neither leaves the page as it was. *)
(***************************************************************************)
\* part_003 updateStats: the user's records of today.
HUpdateStats(ws, user, today) ==
    StatsOf(SelectSeq(ws, LAMBDA w : user # NoUser /\ w.user_id = user
                                      /\ w.workout_date = Day(today)))

\* part_003 renderChart: no chart for an empty collection, else the user's
\* volume of each of the seven days up to today.
HRenderChart(ws, user, today) ==
    IF Len(ws) = 0 THEN <<>>
    ELSE LET mine == SelectSeq(ws, LAMBDA w : user # NoUser /\ w.user_id = user)
         IN  [k \in 1..ChartDays |->
                [date |-> today - (ChartDays - k),
                 volume |-> DayVolume(mine, WorkoutDate, Day(today - (ChartDays - k)))]]

\* frontend/config.js updateStats: the records of today.
SUpdateStats(ws, today) == StatsOf(SelectSeq(ws, LAMBDA w : w.workout_date = today))

\* A handler of part_003 together with its calls of updateStats and renderChart.
HShows(A, stats, chart) ==
    /\ A
    /\ hStats' = IF stats THEN HUpdateStats(hWorkouts', hUser', Today) ELSE hStats
    /\ hChart' = IF chart THEN HRenderChart(hWorkouts', hUser', Today) ELSE hChart
    /\ UNCHANGED <<sStats, sChart, history, probe, page>>

\* A handler of frontend/config.js together with its calls of updateStats and
\* renderChart, which it makes both or not at all.
SShows(A, both) ==
    /\ A
    /\ sStats' = IF both THEN SUpdateStats(sWorkouts', Today) ELSE sStats
    /\ sChart' = IF both THEN SRenderChart(sWorkouts', Today) ELSE sChart
    /\ UNCHANGED <<hStats, hChart, history, probe, page>>

(***************************************************************************)
(* The page load.  document.readyState is "loading" while the document is  *)
(* parsed, then "interactive"; DOMContentLoaded is dispatched once, in the *)
(* interactive state, after the deferred scripts ran; then "complete".  A  *)
(* script runs once, in whatever state its tag lets it.                    *)
(***************************************************************************)
trackers == <<now, srvNow, lVars, dbVars, net, nextReq, sVars, hVars, history, probe, screen>>

\* new WorkoutTracker() of part_003: init() registers the click handlers.
BootConstruct(b) == [b EXCEPT !.hTrackers = @ + 1]

\* loadConfig(): the fetch of /api/public-config starts.
BootLoadConfig(b) == [b EXCEPT !.fetching = @ + 1]

\* A DOMContentLoaded listener is called.
BootCall(b, listener) ==
    IF listener = "tracker" THEN BootConstruct(b) ELSE BootLoadConfig(b)

RECURSIVE BootCallAll(_, _)
BootCallAll(b, listeners) ==
    IF listeners = <<>> THEN b
    ELSE BootCallAll(BootCall(b, Head(listeners)), Tail(listeners))

\* The parser reaches the end of the document.
BootParsed ==
    /\ boot.ready = "loading"
    /\ boot' = [boot EXCEPT !.ready = "interactive"]
    /\ UNCHANGED <<trackers, authUser, sClear, lTimer, sTimer>>

\* DOMContentLoaded: the listeners registered so far are called.
BootDomContentLoaded ==
    /\ boot.ready = "interactive" /\ ~boot.dcl
    /\ boot' = BootCallAll([boot EXCEPT !.dcl = TRUE], boot.onDcl)
    /\ UNCHANGED <<trackers, authUser, sClear, lTimer, sTimer>>

\* load: the document is complete.
BootLoaded ==
    /\ boot.ready = "interactive" /\ boot.dcl
    /\ boot' = [boot EXCEPT !.ready = "complete"]
    /\ UNCHANGED <<trackers, authUser, sClear, lTimer, sTimer>>

\* part_003 runs: a DOMContentLoaded listener that builds a tracker, and a
\* tracker built at once when the document is interactive or complete.
BootRunPart003 ==
    /\ "part_003" \notin boot.ran
    /\ LET b == [boot EXCEPT !.ran = @ \cup {"part_003"}, !.onDcl = Append(@, "tracker")]
       IN  boot' = IF boot.ready \in {"complete", "interactive"} THEN BootConstruct(b) ELSE b
    /\ UNCHANGED <<trackers, authUser, sClear, lTimer, sTimer>>

\* frontend/config.js runs: loadConfig as DOMContentLoaded listener, and
\* called at once when the document is interactive or complete; the
\* 'configLoaded' listener that builds the tracker is registered.
BootRunConfig ==
    /\ "config.js" \notin boot.ran
    /\ LET b == [boot EXCEPT !.ran = @ \cup {"config.js"}, !.onDcl = Append(@, "loadConfig")]
       IN  boot' = IF boot.ready \in {"complete", "interactive"} THEN BootLoadConfig(b) ELSE b
    /\ UNCHANGED <<trackers, authUser, sClear, lTimer, sTimer>>

\* A loadConfig ends, with the server's configuration or the fallback, and
\* dispatches 'configLoaded': the listener builds a tracker.
BootConfigLoaded ==
    /\ boot.fetching > 0
    /\ boot' = [boot EXCEPT !.fetching = @ - 1, !.sTrackers = @ + 1]
    /\ UNCHANGED <<trackers, authUser, sClear, lTimer, sTimer>>

\* One click on 'Add Workout': every tracker's click handler runs addWorkout.
BootClick ==
    /\ boot.clicks < MaxClicks
    /\ boot' = [boot EXCEPT !.clicks = @ + 1, !.added = @ + boot.hTrackers + boot.sTrackers]
    /\ UNCHANGED <<trackers, authUser, sClear, lTimer, sTimer>>

(***************************************************************************)
(* The rest timer.  setInterval returns a handle no live interval has;     *)
(* timerInterval holds the handle set last (0: null); `live` are the       *)
(* intervals that still tick.                                              *)
(***************************************************************************)
TimerSeconds == 90

NoClear == [k |-> "idle"]

FreshHandle(t) ==
    CHOOSE i \in 1..(Cardinality(t.live) + 2) :
        /\ i \notin t.live \cup {t.timerInterval}
        /\ \A j \in 1..(Cardinality(t.live) + 2) :
                j \notin t.live \cup {t.timerInterval} => i <= j

\* clearInterval(timerInterval)
ClearInterval(t) == [t EXCEPT !.live = @ \ {t.timerInterval}]

\* The interval's callback, once a second.
TimerTick(t) ==
    IF t.timeLeft <= 0 THEN ClearInterval(t) ELSE [t EXCEPT !.timeLeft = @ - 1]

\* A start that leaves the running interval alone.
LTimerStartKeepsInterval(t) ==
    [t EXCEPT !.timerInterval = FreshHandle(t), !.live = @ \cup {FreshHandle(t)}]

\* script.js, click on Start: the interval held is cleared, a new one set.
LTimerStart(t) ==
    LET c == IF t.timerInterval # 0 THEN ClearInterval(t) ELSE t
    IN  [c EXCEPT !.timerInterval = FreshHandle(c), !.live = @ \cup {FreshHandle(c)}]

\* script.js, click on Reset.
LTimerReset(t) ==
    LET c == IF t.timerInterval # 0 THEN [ClearInterval(t) EXCEPT !.timerInterval = 0] ELSE t
    IN  [c EXCEPT !.timeLeft = TimerSeconds]

\* frontend/config.js startTimer
STimerStart(t) ==
    IF t.isRunning THEN t
    ELSE [t EXCEPT !.isRunning = TRUE, !.timerInterval = FreshHandle(t),
                   !.live = @ \cup {FreshHandle(t)}]

\* frontend/config.js pauseTimer
STimerPause(t) ==
    IF ~t.isRunning THEN t ELSE [ClearInterval(t) EXCEPT !.isRunning = FALSE]

\* frontend/config.js resetTimer
STimerReset(t) ==
    [ClearInterval(t) EXCEPT !.isRunning = FALSE, !.timeLeft = TimerSeconds]

\* frontend/config.js: the interval's callback clears the flag when it stops.
STimerTick(t) ==
    IF t.timeLeft <= 0 THEN [ClearInterval(t) EXCEPT !.isRunning = FALSE]
    ELSE [t EXCEPT !.timeLeft = @ - 1]

timerOff == <<trackers, boot, authUser, sClear>>

\* script.js: the page's timer events.
LStartClick ==
    /\ lTimer' = LTimerStart(lTimer)
    /\ UNCHANGED <<timerOff, sTimer>>

LResetClick ==
    /\ lTimer' = LTimerReset(lTimer)
    /\ UNCHANGED <<timerOff, sTimer>>

LSecond ==
    /\ lTimer.live # {}
    /\ lTimer' = TimerTick(lTimer)
    /\ UNCHANGED <<timerOff, sTimer>>

\* frontend/config.js: click on Start or the Space key; Reset or Escape; a second.
SStartOrSpace ==
    /\ sTimer' = IF sTimer.isRunning THEN STimerPause(sTimer) ELSE STimerStart(sTimer)
    /\ UNCHANGED <<timerOff, lTimer>>

SResetOrEscape ==
    /\ sTimer' = STimerReset(sTimer)
    /\ UNCHANGED <<timerOff, lTimer>>

SSecond ==
    /\ sTimer.live # {}
    /\ sTimer' = STimerTick(sTimer)
    /\ UNCHANGED <<timerOff, lTimer>>

InitL ==
    /\ now = 0
    /\ srvNow = 0
    /\ lWorkouts = <<>>
    /\ lStorage = <<>>
    /\ lMsg = ""
    /\ lReading = NoFile

InitDb ==
    /\ db = <<>>
    /\ nextId = 1
    /\ net = {}
    /\ nextReq = 1
    /\ origin = {}

InitH ==
    /\ hUser = NoUser
    /\ hWorkouts = <<>>
    /\ hStorage = <<>>
    /\ hMsg = ""
    /\ hDelPending = {}

InitS ==
    /\ sUser = NoUser
    /\ sWorkouts = <<>>
    /\ sMsg = ""

InitProbe ==
    /\ resp = NoResp
    /\ call = NoCall
    /\ ret = NoRet

\* The page as served: zero statistics, no chart.
InitScreen ==
    /\ hStats = StatsOf(<<>>) /\ hChart = <<>>
    /\ sStats = StatsOf(<<>>) /\ sChart = <<>>

\* The document starts to load: nothing ran yet.
InitPage ==
    /\ boot = [ready |-> "loading", dcl |-> FALSE, ran |-> {}, onDcl |-> <<>>,
               fetching |-> 0, hTrackers |-> 0, sTrackers |-> 0, clicks |-> 0, added |-> 0]
    /\ authUser = NoUser
    /\ sClear = NoClear
    /\ lTimer = [timeLeft |-> TimerSeconds, timerInterval |-> 0, live |-> {}]
    /\ sTimer = [timeLeft |-> TimerSeconds, timerInterval |-> 0, live |-> {},
                 isRunning |-> FALSE]

Init == InitL /\ InitDb /\ InitS /\ InitH /\ InitProbe /\ InitScreen /\ InitPage

\* A step that records no history and is no call of the API or of a function
\* on its own.
Quiet(A) == A /\ UNCHANGED <<history, probe, screen, page>>

Next ==
    \/ \E f \in Forms : Quiet(LAddWorkout(f))
    \/ \E id \in 1..MaxClock : Quiet(LDeleteWorkout(id))
    \/ Quiet(LClearAllWorkouts)
    \/ \E file \in ImportFiles : Quiet(LImportData(file))
    \/ Quiet(LImportOnload)

Spec == Init /\ [][Next]_vars

\* The server-backed tracker, one user's browser, and the main server.
NextRemote ==
    \/ \E u \in {"A", NoUser}, tok \in BOOLEAN : Quiet(SAuthStateChanged(u, tok))
    \/ \E r \in net : Quiet(SLoadResp(r))
    \/ \E f \in Forms \cup {LaterForm}, tok \in BOOLEAN : Quiet(SAddWorkout(f, tok))
    \/ \E r \in net : Quiet(SAddResp(r))
    \/ \E i \in 1..MaxReqs, tok \in BOOLEAN : Quiet(SDeleteWorkout(Uuid(i), tok))
    \/ \E r \in net : Quiet(SDeleteResp(r))
    \/ \E r \in net : Quiet(Srv0Handle(r))
    \/ \E r \in net : Quiet(NetFail(r))

SpecRemote == Init /\ [][NextRemote]_vars

\* The server-backed tracker with its Clear All button.
NextClear ==
    \/ \E tok \in BOOLEAN : Quiet(SAuthStateChanged("A", tok))
    \/ \E r \in net : Quiet(SLoadResp(r))
    \/ \E f \in Forms, tok \in BOOLEAN : Quiet(SAddWorkout(f, tok))
    \/ \E r \in net : Quiet(SAddResp(r))
    \/ \E tok \in BOOLEAN : SClearAllWorkouts(tok)
    \/ \E r \in net, rejected \in BOOLEAN : SClearResp(r, rejected)
    \/ \E r \in net : Srv0HandleCounted(r)
    \/ \E r \in net : Quiet(NetFail(r))

SpecClear == Init /\ [][NextClear]_vars

\* The localStorage tracker and the main server.
NextHybrid ==
    \/ \E u \in {"A", NoUser} : Quiet(HAuthStateChanged(u))
    \/ \E f \in Forms : Quiet(HAddWorkout(f))
    \/ \E r \in net, tok \in BOOLEAN : Quiet(HSaveToBackend(r, tok))
    \/ \E r \in net : Quiet(HSaveResp(r))
    \/ \E t \in 1..MaxClock : Quiet(HDeleteWorkout(LocalId(t)))
    \/ \E r \in net : Quiet(Srv0Handle(r))
    \/ \E r \in net : Quiet(NetFail(r))

SpecHybrid == Init /\ [][NextHybrid]_vars

\* History of a push: the row the server created for it, and whether the
\* user deleted its record while it was in flight.
Srv0HandleTracked(r) ==
    /\ Srv0Handle(r)
    /\ origin' = IF r.ctx = "push" /\ Len(db') > Len(db)
                 THEN origin \cup {<<db'[Len(db')].id, r.rid>>} ELSE origin
    /\ UNCHANGED <<hDelPending, probe, screen, page>>

HDeleteWorkoutTracked(id) ==
    /\ HDeleteWorkout(id)
    /\ hDelPending' = hDelPending \cup {r.rid : r \in {q \in net : q.ctx = "push" /\ q.target = id}}
    /\ UNCHANGED <<origin, probe, screen, page>>

\* The localStorage tracker; once nothing is outstanding, the same user opens
\* the server-backed tracker, which reloads from the server.
NextTabs ==
    \/ \E u \in {"A", NoUser} : Quiet(HAuthStateChanged(u))
    \/ \E f \in Forms : Quiet(HAddWorkout(f))
    \/ \E r \in net, tok \in BOOLEAN : Quiet(HSaveToBackend(r, tok))
    \/ \E r \in net : Quiet(HSaveResp(r))
    \/ \E t \in 1..MaxClock : HDeleteWorkoutTracked(LocalId(t))
    \/ \E r \in net : Srv0HandleTracked(r)
    \/ \E r \in net : Quiet(NetFail(r))
    \/ net = {} /\ Quiet(SAuthStateChanged("A", TRUE))
    \/ \E r \in net : Quiet(SLoadResp(r))

SpecTabs == Init /\ [][NextTabs]_vars

\* One browser tab: it runs the server-backed tracker or the localStorage
\* tracker, and the other one never starts.
SIdle ==
    /\ sUser = NoUser /\ sWorkouts = <<>> /\ sMsg = ""
    /\ \A r \in net : r.ctx = "push"

HIdle ==
    /\ hUser = NoUser /\ hWorkouts = <<>> /\ hStorage = <<>> /\ hMsg = ""
    /\ \A r \in net : r.ctx # "push"

OnlyS(A) == HIdle /\ Quiet(A)
OnlyH(A) == SIdle /\ Quiet(A)

NextPage ==
    \/ \E u \in {"A", NoUser}, tok \in BOOLEAN : OnlyS(SAuthStateChanged(u, tok))
    \/ \E r \in net : OnlyS(SLoadResp(r))
    \/ \E f \in Forms, tok \in BOOLEAN : OnlyS(SAddWorkout(f, tok))
    \/ \E r \in net : OnlyS(SAddResp(r))
    \/ \E i \in 1..MaxReqs, tok \in BOOLEAN : OnlyS(SDeleteWorkout(Uuid(i), tok))
    \/ \E r \in net : OnlyS(SDeleteResp(r))
    \/ \E u \in {"A", NoUser} : OnlyH(HAuthStateChanged(u))
    \/ \E f \in Forms : OnlyH(HAddWorkout(f))
    \/ \E r \in net, tok \in BOOLEAN : OnlyH(HSaveToBackend(r, tok))
    \/ \E r \in net : OnlyH(HSaveResp(r))
    \/ \E t \in 1..MaxClock : OnlyH(HDeleteWorkout(LocalId(t)))
    \/ \E r \in net : Quiet(Srv0Handle(r))
    \/ \E r \in net : Quiet(NetFail(r))

SpecPage == Init /\ [][NextPage]_vars

\* The two trackers with their pages, one at a time in the tab.
NextScreen ==
    \/ \E u \in {"A", NoUser}, tok \in BOOLEAN :
            HIdle /\ SShows(SAuthStateChanged(u, tok), FALSE)
    \/ \E r \in net : HIdle /\ SShows(SLoadResp(r), r.stage = "ok")
    \/ \E f \in Forms, tok \in BOOLEAN : HIdle /\ SShows(SAddWorkout(f, tok), FALSE)
    \/ \E r \in net : HIdle /\ SShows(SAddResp(r), r.stage = "ok")
    \/ \E i \in 1..MaxReqs, tok \in BOOLEAN :
            HIdle /\ SShows(SDeleteWorkout(Uuid(i), tok), FALSE)
    \/ \E r \in net : HIdle /\ SShows(SDeleteResp(r), r.stage = "ok")
    \/ \E u \in {"A", NoUser} : SIdle /\ HShows(HAuthStateChanged(u), TRUE, u # NoUser)
    \/ \E f \in Forms :
            SIdle /\ HShows(HAddWorkout(f), hUser # NoUser /\ HVerdict[f] = "ok",
                            hUser # NoUser /\ HVerdict[f] = "ok")
    \/ \E r \in net, tok \in BOOLEAN : SIdle /\ HShows(HSaveToBackend(r, tok), FALSE, FALSE)
    \/ \E r \in net : SIdle /\ HShows(HSaveResp(r), FALSE, FALSE)
    \/ \E t \in 1..MaxClock : SIdle /\ HShows(HDeleteWorkout(LocalId(t)), TRUE, FALSE)
    \/ \E r \in net : Quiet(Srv0Handle(r))
    \/ \E r \in net : Quiet(NetFail(r))

SpecScreen == Init /\ [][NextScreen]_vars

\* A page load.
NextBoot ==
    \/ BootParsed
    \/ BootDomContentLoaded
    \/ BootLoaded
    \/ BootRunPart003
    \/ BootRunConfig
    \/ BootConfigLoaded
    \/ BootClick

SpecBoot == Init /\ [][NextBoot]_vars

\* auth.js: a session appears (handleLogin, or onAuthStateChange with a
\* session): currentUser is set and dispatchAuthEvent() runs the tracker's
\* 'authStateChanged' listener.
AuthSignedIn(user) ==
    /\ authUser \in {NoUser, user}
    /\ authUser' = user
    /\ HAuthStateChanged(user)
    /\ UNCHANGED <<history, probe, screen, boot, sClear, lTimer, sTimer>>

\* auth.js: the session ends.  handleLogout awaits signOut() and sets
\* currentUser = null; onAuthStateChange, called without a session, sets
\* currentUser = null and shows the login form.  Neither dispatches an event.
AuthSignedOut ==
    /\ authUser # NoUser
    /\ authUser' = NoUser
    /\ UNCHANGED <<trackers, boot, sClear, lTimer, sTimer>>

\* The auth module and the localStorage tracker on one page.
NextAuth ==
    \/ \E u \in Users : AuthSignedIn(u)
    \/ AuthSignedOut
    \/ \E f \in Forms : Quiet(HAddWorkout(f))
    \/ \E r \in net, tok \in BOOLEAN : Quiet(HSaveToBackend(r, tok))
    \/ \E r \in net : Quiet(HSaveResp(r))
    \/ \E t \in 1..MaxClock : Quiet(HDeleteWorkout(LocalId(t)))
    \/ \E r \in net : Quiet(Srv0Handle(r))
    \/ \E r \in net : Quiet(NetFail(r))

\* Every handler that can run does run in the end.
SpecAuth == Init /\ [][NextAuth]_vars /\ WF_vars(NextAuth)

\* The rest timer of the page: script.js's or frontend/config.js's.
NextTimer ==
    \/ sTimer.timerInterval = 0 /\ LStartClick
    \/ sTimer.timerInterval = 0 /\ LResetClick
    \/ LSecond
    \/ lTimer.timerInterval = 0 /\ lTimer.timeLeft = TimerSeconds /\ SStartOrSpace
    \/ lTimer.timerInterval = 0 /\ lTimer.timeLeft = TimerSeconds /\ SResetOrEscape
    \/ SSecond

SpecTimer == Init /\ [][NextTimer]_vars

\* The API under authenticated callers.
NextApi ==
    \/ \E u \in Users, b \in ApiBodies : Quiet(ApiPost(u, b))
    \/ \E u \in Users, i \in 1..MaxCalls, b \in ApiBodies : Quiet(ApiPut(u, Uuid(i), b))
    \/ \E u \in Users, i \in 1..MaxCalls : Quiet(ApiDelete(u, Uuid(i)))
    \/ \E u \in Users, items \in ApiBatches : Quiet(ApiBatch(u, items))

SpecApi == Init /\ [][NextApi]_vars

\* The API under any caller.
NextGate ==
    \/ \E c \in Creds : Gate0Get(c)
    \/ \E c \in Creds, b \in GateBodies : Gate0Post(c, b)
    \/ \E c \in Creds, i \in 1..MaxGateCalls : Gate0Delete(c, Uuid(i))
    \/ \E c \in Creds, items \in GateBatches : Gate0Batch(c, items)
    \/ \E c \in Creds : Gate0Stats(c)
    \/ \E c \in Creds, p \in Periods : Gate0Analytics(c, p)
    \/ \E c \in Creds, b \in GateBodies : Gate1Post(c, b)
    \/ \E c \in Creds, i \in 1..MaxGateCalls, b \in GateBodies : Gate1Put(c, Uuid(i), b)
    \/ \E c \in Creds, i \in 1..MaxGateCalls : Gate1Delete(c, Uuid(i))
    \/ \E c \in Creds, b \in GateBodies : Gate2Post(c, b)

SpecGate == Init /\ [][NextGate]_vars

\* The computations on their own.
InitCalc ==
    /\ InitL /\ InitDb /\ InitS /\ InitH /\ InitScreen /\ InitPage
    /\ resp = NoResp
    /\ call \in CalcCalls
    /\ ret = NoRet

NextCalc ==
    \/ Run("updateStats")
    \/ Run("stats")
    \/ Run("analytics")
    \/ Run("calculateOneRM")
    \/ Run("script.renderChart")
    \/ Run("part_002.renderChart")
    \/ Run("config.renderChart")
    \/ Run("validate")

SpecCalc == InitCalc /\ [][NextCalc]_vars

(***************************************************************************)
(* The claims.                                                             *)
(***************************************************************************)
\* C1: every record that addWorkout (script.js) accepts and stores has sets,
\* reps and weight that are integers greater than 0, whatever the raw inputs:
\* right after "Workout added successfully!" the record at the head of the
\* collection has three positive integers.
C1_AcceptedRecordPositive ==
    lMsg = "Workout added successfully!" =>
        /\ lWorkouts # <<>>
        /\ PosInt(Head(lWorkouts).sets)
        /\ PosInt(Head(lWorkouts).reps)
        /\ PosInt(Head(lWorkouts).weight)

\* The submissions C2 speaks of: a field missing or empty, or a numeric field
\* whose value is a number not greater than 0.
RejectedForms ==
    {f \in Forms :
        \/ f.exercise = <<>> \/ f.sets = <<>> \/ f.reps = <<>> \/ f.weight = <<>>
        \/ f.workoutDate.k = "empty"
        \/ LeZero(Str(f.sets)) \/ LeZero(Str(f.reps)) \/ LeZero(Str(f.weight))}

\* C2: when addWorkout (frontend/config.js, part_003) is given a submission
\* with a missing or empty field or a non-positive number, the step leaves the
\* in-memory collection and the localStorage cache unchanged and sends no
\* request.
C2_RejectedSubmissionChangesNothing ==
    [][ \/ UNCHANGED <<sWorkouts, hWorkouts, hStorage, net>>
        \/ \A f \in RejectedForms :
              /\ ~HAddWorkout(f)
              /\ \A tok \in BOOLEAN : ~SAddWorkout(f, tok) ]_vars

\* C2's case: part_003 holds one stored record, whose request is the only one
\* ever made, and has just rejected a non-positive value.
C2_RejectedWhileHoldingRecords ==
    /\ hMsg = "Values must be greater than 0"
    /\ Len(hWorkouts) = 1 /\ hStorage = hWorkouts
    /\ nextReq = 2

\* C3: one accepted submission whose POST succeeded (the only row ever
\* created), every request completed: the collection of frontend/config.js
\* shows exactly one entry for that row.
C3_ExactlyOneEntry ==
    (/\ net = {} /\ sUser = "A" /\ sMsg = "Workout added successfully!"
     /\ nextId = 2 /\ Len(db) = 1)
    => Cardinality({i \in 1..Len(sWorkouts) : sWorkouts[i].id = db[1].id}) = 1

\* C4: a step taken because a push failed (the response is not ok, the fetch
\* rejected, or there is no token) leaves the in-memory collection and the
\* localStorage cache of part_003 as they are.
C4_FailedPushKeepsRecord ==
    [][ \A r \in net :
          ((HSaveResp(r) /\ r.stage = "fail") \/ HSaveToBackend(r, FALSE))
          => (hWorkouts' = hWorkouts /\ hStorage' = hStorage) ]_vars

\* C4's case: the one submission made was pushed, the push has resolved and
\* the server stored nothing, and the record is in memory and in the cache.
C4_RecordKeptAfterFailedPush ==
    /\ nextReq = 2 /\ net = {} /\ db = <<>>
    /\ Len(hWorkouts) = 1 /\ hStorage = hWorkouts

\* C5: every failed push of part_003 is shown to the user: the step that ends
\* a failed push leaves a failure notice as the message shown.
C5_FailedPushIsShown ==
    [][ \A r \in net :
          ((HSaveResp(r) /\ r.stage = "fail") \/ HSaveToBackend(r, FALSE))
          => hMsg' = "Failed to add workout" ]_vars

\* C6: a confirmed deleteWorkout(id) of frontend/config.js removes the record
\* from the collection at once, before the remote delete resolves.
C6_DeleteRemovesAtOnce ==
    [][ \A i \in 1..MaxReqs, tok \in BOOLEAN :
          SDeleteWorkout(Uuid(i), tok)
          => \A k \in 1..Len(sWorkouts') : sWorkouts'[k].id # Uuid(i) ]_vars

\* C7: a record deleted in part_003 while its push was in flight is not shown
\* by a full reload from the server made after the push resolved.
C7_DeletedStaysDeleted ==
    [][ \A r \in net :
          (SLoadResp(r) /\ r.stage = "ok")
          => \A k \in 1..Len(sWorkouts'), o \in origin :
                ~(o[1] = sWorkouts'[k].id /\ o[2] \in hDelPending /\ o[2] < r.rid) ]_vars

\* C8: a full reload of frontend/config.js merges by id: a local record whose
\* id is not in the remote result is still in the collection after the reload.
C8_ReloadKeepsUnconfirmed ==
    [][ \A r \in net :
          (SLoadResp(r) /\ r.stage = "ok")
          => \A i \in 1..Len(sWorkouts) :
                (\A k \in 1..Len(r.rows) : r.rows[k].id # sWorkouts[i].id)
                => \E j \in 1..Len(sWorkouts') : sWorkouts'[j] = sWorkouts[i] ]_vars

\* C9: the import (script.js) of a backup with a malformed entry is rejected
\* as a whole: the collection and the stored records stay as they were.
C9_MalformedImportRejected ==
    [][ (LImportOnload /\ Malformed(lReading)) => UNCHANGED <<lWorkouts, lStorage>> ]_vars

\* C10: no API operation changes the owner of a stored record: a row that is
\* in the table before and after a step has the same user_id.
C10_OwnerNeverChanges ==
    [][ \A i \in 1..Len(db), j \in 1..Len(db') :
          db'[j].id = db[i].id => db'[j].user_id = db[i].user_id ]_vars

\* C11: in every reachable state of the script.js collection (after any
\* addWorkout, deleteWorkout, importData and clear-all, the clock being free
\* to return the same millisecond twice) no two records share an id.
C11_IdsDistinct ==
    \A i, j \in 1..Len(lWorkouts) :
        i # j => lWorkouts[i].id # lWorkouts[j].id

\* C12: a request to a record endpoint that carries no bearer token, or a
\* token the identity provider does not resolve to a user, is answered 401 and
\* touches nothing: the handler runs no query on the workouts table, the
\* response carries no rows and the table is as it was.
C12_UnauthenticatedTouchesNothing ==
    (resp.kind # "none" /\ resp.cred \in {"noheader", "notoken", "bad"})
        => /\ resp.status = 401
           /\ resp.queries = 0
           /\ resp.rows = <<>> /\ resp.data = NoRet
           /\ db = resp.before

\* C12 happens: a batch import with a rejected token, against a table that
\* holds rows.
C12_RejectedBatchOnFilledTable ==
    /\ resp.kind = "BATCH" /\ resp.cred = "bad" /\ Len(resp.arg) = 2
    /\ Len(db) >= 1

\* C13: on the main server (part_000) a request authenticated as one user
\* returns only that user's rows, leaves every row of the other user as it
\* was, and inserts only rows owned by the caller, whatever user_id the body
\* carries.
C13_CallerSeesAndChangesOnlyOwnRows ==
    (resp.kind # "none" /\ resp.srv = 0 /\ resp.cred \in Users)
        => /\ \A i \in 1..Len(resp.rows) : resp.rows[i].user_id = resp.cred
           /\ SelectSeq(db, LAMBDA r : r.user_id # resp.cred)
                = SelectSeq(resp.before, LAMBDA r : r.user_id # resp.cred)
           /\ \A i \in 1..Len(db) :
                (\A j \in 1..Len(resp.before) : resp.before[j].id # db[i].id)
                    => db[i].user_id = resp.cred

\* C13 happens: A asked to delete a row that belongs to B, and the row is
\* still there.
C13_ForeignDeleteLeftRow ==
    /\ resp.kind = "DELETE" /\ resp.srv = 0 /\ resp.cred = "A" /\ resp.status = 200
    /\ \E i \in 1..Len(db) : db[i].id = resp.arg /\ db[i].user_id = "B"

\* C14: after any reloads and adds, the collection the server-backed tracker
\* displays and aggregates is sorted by (workout_date descending, created_at
\* descending).
C14_DisplayedNewestFirst ==
    \A i, j \in 1..Len(sWorkouts) :
        i < j => \/ sWorkouts[i].workout_date > sWorkouts[j].workout_date
                 \/ /\ sWorkouts[i].workout_date = sWorkouts[j].workout_date
                    /\ sWorkouts[i].created_at >= sWorkouts[j].created_at

\* The records a call aggregates: today's (updateStats, /api/stats, there the
\* caller's) or the caller's of the period (/api/analytics), as positions of
\* the collection.
Aggregated ==
    {i \in 1..Len(call.rows) :
        CASE call.fn = "updateStats" -> call.rows[i].rawDate = call.today
          [] call.fn = "stats" -> /\ call.rows[i].user_id = call.user
                                   /\ call.rows[i].workout_date = call.today
          [] call.fn = "analytics" ->
                /\ call.rows[i].user_id = call.user
                /\ call.rows[i].workout_date >= call.today - PeriodDays(call.period)
          [] OTHER -> FALSE}

\* The sum of f over a set of positions, in no particular order.
RECURSIVE SetSum(_, _)
SetSum(S, f) ==
    IF S = {} THEN 0
    ELSE LET x == CHOOSE y \in S : TRUE IN f[x] + SetSum(S \ {x}, f)

AllIntegers(S) ==
    \A i \in S : /\ call.rows[i].sets.k = "int" /\ call.rows[i].reps.k = "int"
                 /\ call.rows[i].weight.k = "int"

\* The collection of the call in every order.
Reorderings ==
    {[i \in 1..Len(call.rows) |-> call.rows[p[i]]] :
        p \in {q \in [1..Len(call.rows) -> 1..Len(call.rows)] :
                 \A a, b \in 1..Len(call.rows) : a # b => q[a] # q[b]}}

StatsCalls == {"updateStats", "stats", "analytics"}

\* C15: the total volume reported for the filtered subset is the sum of
\* sets*reps*weight over exactly the records of that subset, and it is the
\* same for every ordering of the collection.
C15_TotalVolumeIsTheSum ==
    (call.fn \in StatsCalls /\ ret.k = "done")
        => /\ AllIntegers(Aggregated)
                => ret.v.totalVolume =
                     IntV(SetSum(Aggregated,
                                 [i \in 1..Len(call.rows) |->
                                    call.rows[i].sets.v * call.rows[i].reps.v
                                        * call.rows[i].weight.v]))
           /\ \A q \in Reorderings :
                CalcApply([call EXCEPT !.rows = q]).totalVolume = ret.v.totalVolume

\* C15 happens: two rows of different volume were aggregated.
C15_TwoOfSeveralAggregated ==
    /\ call.fn = "stats" /\ ret.k = "done"
    /\ Cardinality(Aggregated) = 2 /\ Len(call.rows) = 2
    /\ call.rows[1].weight # call.rows[2].weight

AverageOf(r) == IF call.fn = "analytics" THEN r.averageWeight ELSE r.avgWeight

\* C16: the average weight reported for the filtered subset is 0 when the
\* subset is empty, w for a single record of weight w, and otherwise the
\* integer nearest to the mean of the weights, halves rounded up.
C16_AverageWeightRounded ==
    (call.fn \in StatsCalls /\ ret.k = "done")
        => LET n == Cardinality(Aggregated)
               total == SetSum(Aggregated, [i \in 1..Len(call.rows) |-> call.rows[i].weight.v])
               avg == AverageOf(ret.v)
           IN  /\ n = 0 => avg = IntV(0)
               /\ (n = 1 /\ AllIntegers(Aggregated))
                    => \A i \in Aggregated : avg = call.rows[i].weight
               /\ (n > 0 /\ AllIntegers(Aggregated))
                    => /\ avg.k = "int"
                       /\ 2 * avg.v * n <= 2 * total + n
                       /\ 2 * total + n < 2 * (avg.v + 1) * n

\* C16 happens: two weights whose mean falls on a half.
C16_MeanOnAHalf ==
    /\ call.fn = "updateStats" /\ ret.k = "done"
    /\ Cardinality(Aggregated) = 2
    /\ {call.rows[i].weight : i \in Aggregated} = {IntV(1), IntV(2)}
    /\ ret.v.avgWeight = IntV(2)

\* C17: for positive integer weight and reps calculateOneRM returns the
\* integer nearest to weight*(30+reps)/30, halves rounded up.
C17_OneRMIsNearestInteger ==
    (call.fn = "calculateOneRM" /\ ret.k = "done")
        => ret.v = IntV((2 * call.weight * (30 + call.reps) + 30) \div 60)

ChartCalls == {"script.renderChart", "part_002.renderChart", "config.renderChart"}

\* C18: the chart's series has exactly 7 entries, one per calendar day of the
\* window ending today, ascending, each day once, with volume 0 for a day
\* without workouts, whatever the collection.
C18_ChartSeriesDense ==
    (call.fn \in ChartCalls /\ ret.k = "done")
        => /\ Len(ret.v) = 7
           /\ \A k \in 1..Len(ret.v) : ret.v[k].date = call.today - 7 + k
           /\ \A k \in 1..Len(ret.v) :
                (\A i \in 1..Len(call.rows) :
                    ret.v[k].date # (IF call.fn = "config.renderChart"
                                   THEN call.rows[i].workout_date
                                   ELSE call.rows[i].rawDate))
                    => ret.v[k].volume = IntV(0)

\* C19: workoutsByDate of GET /api/analytics for a period of N days has
\* exactly N entries, one for every calendar day of the window ending today,
\* ascending, the days of volume zero included.
C19_AnalyticsSeriesDense ==
    (call.fn = "analytics" /\ call.period \in {"7days", "30days", "90days"} /\ ret.k = "done")
        => LET n == PeriodDays(call.period)
           IN  /\ Len(ret.v.workoutsByDate) = n
               /\ \A k \in 1..Len(ret.v.workoutsByDate) :
                    ret.v.workoutsByDate[k].date = call.today - n + k

\* The caller's rows dated within the N calendar days ending today.
InWindow ==
    {i \in 1..Len(call.rows) :
        /\ call.rows[i].user_id = call.user
        /\ call.rows[i].workout_date > call.today - PeriodDays(call.period)
        /\ call.rows[i].workout_date <= call.today}

\* C20: GET /api/analytics for a period of N days aggregates exactly the
\* caller's rows dated today-(N-1) .. today: rows dated earlier or later
\* contribute to none of totalWorkouts, totalVolume, workoutsByDate and
\* topExercises.
C20_AnalyticsWindowExact ==
    (call.fn = "analytics" /\ call.period \in {"7days", "30days", "90days"} /\ ret.k = "done")
        => /\ ret.v.totalWorkouts = Cardinality(InWindow)
           /\ ret.v.totalVolume =
                IntV(SetSum(InWindow, [i \in 1..Len(call.rows) |->
                        call.rows[i].sets.v * call.rows[i].reps.v * call.rows[i].weight.v]))
           /\ \A k \in 1..Len(ret.v.workoutsByDate) :
                \E i \in InWindow : call.rows[i].workout_date = ret.v.workoutsByDate[k].date
           /\ \A k \in 1..Len(ret.v.topExercises) :
                ret.v.topExercises[k].count
                    = Cardinality({i \in InWindow :
                                     call.rows[i].exercise = ret.v.topExercises[k].exercise})

\* The position at which the rows the call aggregates first name an exercise.
FirstRow(name) ==
    CHOOSE i \in Aggregated : /\ call.rows[i].exercise = name
                              /\ \A j \in Aggregated : call.rows[j].exercise = name => i <= j

\* C21: topExercises of GET /api/analytics lists each distinct exercise of the
\* period once with its number of occurrences (ten at most), the higher
\* count first and, among equal counts, the exercise met first.
C21_TopExercisesRanked ==
    (call.fn = "analytics" /\ ret.k = "done")
        => LET top == ret.v.topExercises
               names == {call.rows[i].exercise : i \in Aggregated}
           IN  /\ Len(top) = IF Cardinality(names) < 10 THEN Cardinality(names) ELSE 10
               /\ \A k \in 1..Len(top) :
                    /\ top[k].exercise \in names
                    /\ top[k].count = Cardinality({i \in Aggregated :
                                            call.rows[i].exercise = top[k].exercise})
               /\ \A k, l \in 1..Len(top) :
                    k < l => \/ top[k].count > top[l].count
                             \/ /\ top[k].count = top[l].count
                                /\ FirstRow(top[k].exercise) < FirstRow(top[l].exercise)

\* The submissions of the call's kind in which field fld alone is zero or
\* negative, and the one in which it is absent.
Offending(fld) ==
    IF call.by = "part_000"
    THEN {[GoodBody EXCEPT ![fld] = v] : v \in {NumV(0), NumV(-5000)}}
    ELSE {[GoodForm EXCEPT ![fld] = v] : v \in {<<"0">>, <<"-", "5">>}}

Missing(fld) ==
    IF call.by = "part_000" THEN [GoodBody EXCEPT ![fld] = NullV]
    ELSE [GoodForm EXCEPT ![fld] = <<>>]

GenericOutcomes == {"Values must be greater than 0", "INVALID_VALUES"}

\* C22: a submission whose sets or weight is zero or negative is rejected
\* with an outcome that names the field: not the outcome of the field being
\* absent, not the generic "values must be positive" outcome, and not the
\* outcome of the same offence in another field.
C22_RejectionNamesTheField ==
    (call.fn = "validate" /\ ret.k = "done")
        => \A fld \in {"sets", "weight"} :
             call.form \in Offending(fld)
                => /\ ret.v # "ok"
                   /\ ret.v # Validate(call.by, Missing(fld))
                   /\ ret.v \notin GenericOutcomes
                   /\ \A other \in NumberFields \ {fld} :
                        \A g \in Offending(other) : ret.v # Validate(call.by, g)

\* C23: when the server-backed tracker accepts a submission and sends its
\* push, the new record is in the collection (displayed and aggregated) at
\* once, before the request resolves.
C23_VisibleBeforePushResolves ==
    [][ (\E r \in net' \ net : r.kind = "POST" /\ r.stage = "sent" /\ r.ctx = "")
            => Len(sWorkouts') = Len(sWorkouts) + 1 ]_vars

\* C24: when a push of part_003 comes back successful, the record it pushed
\* carries from then on the id the server gave it, in the collection and in
\* localStorage.
C24_PushedRecordAdoptsServerId ==
    [][ \A r \in net \ net' :
            (r.ctx = "push" /\ r.stage = "ok" /\ r.rows # <<>>)
                => /\ \A i \in 1..Len(hWorkouts) :
                        hWorkouts[i].id = r.target => hWorkouts'[i].id = r.rows[1].id
                   /\ \A i \in 1..Len(hStorage) :
                        hStorage[i].id = r.target => hStorage'[i].id = r.rows[1].id ]_vars

\* C25: whenever the collection of a tracker has changed, the statistics and
\* the chart on its page are those of the collection as it now is.
C25_PageShowsTheCollection ==
    /\ hStats = HUpdateStats(hWorkouts, hUser, Today)
    /\ hChart = HRenderChart(hWorkouts, hUser, Today)
    /\ sStats = SUpdateStats(sWorkouts, Today)
    /\ sChart = SRenderChart(sWorkouts, Today)

\* A reload of the server-backed tracker fails in this step: its GET came
\* back failed, or it found no token to send one.
FailedReload ==
    \/ \E r \in net \ net' : r.kind = "GET" /\ r.stage = "fail"
    \/ net' = net /\ sUser' # NoUser /\ sMsg' = "Failed to load workouts"

\* C26: a reload that fails leaves the collection the client held (and shows)
\* as it was.
C26_FailedReloadKeepsRecords ==
    [][ FailedReload => sWorkouts' = sWorkouts ]_vars

\* The page load is over: one tracker's script ran, the document is complete
\* and no loadConfig is outstanding.
BootSettled ==
    /\ Cardinality(boot.ran) = 1
    /\ boot.ready = "complete" /\ boot.fetching = 0

\* C27: once the page load is over there is exactly one tracker with its
\* handlers registered, so every click on 'Add Workout' so far ran
\* addWorkout at most once.
C27_OneTrackerPerPage ==
    /\ BootSettled => boot.hTrackers + boot.sTrackers = 1
    /\ boot.added <= boot.clicks

\* C28: whenever the auth module has observed a sign-out, the tracker is
\* told: in the end its currentUser is null and its collection is empty.
C28_SignOutReachesTracker ==
    (authUser = NoUser) ~> (hUser = NoUser /\ hWorkouts = <<>>)

\* C30: the rest timers keep timeLeft within 0..90 and have at most one
\* interval ticking; frontend/config.js's isRunning is true exactly when an
\* interval ticks.
C30_TimerWithinBounds ==
    /\ lTimer.timeLeft \in 0..90 /\ Cardinality(lTimer.live) <= 1
    /\ sTimer.timeLeft \in 0..90 /\ Cardinality(sTimer.live) <= 1
    /\ sTimer.isRunning <=> sTimer.live # {}

\* C30 happens: script.js's timer was started again while it was counting.
C30_RestartedWhileCounting ==
    /\ lTimer.timerInterval = 2 /\ lTimer.live = {2}
    /\ lTimer.timeLeft < 90

\* C29: when a confirmed clearAllWorkouts completes, the user has no row
\* left on the server, the collection is empty, and the count reported is
\* the number of rows removed.
C29_ClearEmptiesBothSides ==
    [][ (sClear.k = "running" /\ sClear'.k = "done")
        => /\ sWorkouts' = <<>>
           /\ Srv0Get(db', sUser).rows = <<>>
           /\ sClear'.deletedCount = sClear'.removed ]_vars

=============================================================================
